---- MODULE Spec2Model ----
\* A model of the WhatsApp export correlator: the transcript parser, the phone
\* extractor, the image-to-contact correlator (whatsapp_parser.py) and the month
\* filter (main.py).
\*
\* Text is modelled as a sequence of one-character strings, so that the regular
\* expressions and the date parsing of the source are computed character by
\* character.  "LRM" stands for the single character U+200E.
EXTENDS Integers, Sequences, FiniteSets, TLC

VARIABLES
    chat_exists,            \* os.path.exists(chat_file_path) in the last parse_chat_file
    contacts,               \* self.contacts: sender label -> [name, phone]
    image_contact_mapping,  \* self.image_contact_mapping: basename -> entry
    message_timestamps,     \* self.message_timestamps: attachment filename -> timestamp
    pc,                     \* where the caller / the running method is
    transcript,             \* the lines of the chat file read so far by parse_chat_file
    image_entries,          \* the list parse_chat_file builds and the caller then holds
    filename_mapping,       \* the local ordered dict of map_images_to_contacts
    image_files,            \* the caller's image paths reached so far: those the loop of
                            \* map_images_to_contacts has taken, or those found on disk
                            \* when process_chat_export finds no chat file
    branch,                 \* the branch the last loop body ended in
    contact_mapping,        \* the mapping returned to the caller
    ncalls,                 \* how many times each method was called on this parser
    phone_call,             \* the last call of extract_phone_number: arguments and result
    filter_call,            \* the last call of filter_images_by_month: arguments and result
    first_run,              \* what an earlier run on this parser returned and was given
    payment_run,            \* the run of process_payments: arguments, position and results
    excel_call              \* the last call of save_to_excel: argument and columns written

vars == <<chat_exists, contacts, image_contact_mapping, message_timestamps, pc, transcript,
          image_entries, filename_mapping, image_files, branch, contact_mapping,
          ncalls, phone_call, filter_call, first_run, payment_run, excel_call>>

\* The state outside the parser and the two pure calls.
run_vars == <<first_run, payment_run, excel_call>>

-----------------------------------------------------------------------------
\* Bounds of the model.

\* The longest list of attachment events a caller passes to the correlator.
MaxEvents == 2

\* The largest number of lines of a transcript.
MaxLines == 2

\* The longest list of image paths passed to one call.
MaxImages == 2

\* How many times parse_chat_file is called on one parser instance.
MaxCalls == 2

-----------------------------------------------------------------------------
\* Characters and elementary text functions.

Digits == {"0", "1", "2", "3", "4", "5", "6", "7", "8", "9"}

\* The characters of the class \s (and of str.strip) that occur in the model.
Whitespace == {" ", "\t"}

\* Python's None.  It is a one-element tuple so that it can be compared with text.
None == <<"None">>

EmptyText == <<>>

\* The empty dict.
EmptyDict == <<>>

Max(S) == CHOOSE x \in S : \A y \in S : y <= x

Min(S) == CHOOSE x \in S : \A y \in S : x <= y

DigitVal(c) ==
    CASE c = "0" -> 0 [] c = "1" -> 1 [] c = "2" -> 2 [] c = "3" -> 3 [] c = "4" -> 4
      [] c = "5" -> 5 [] c = "6" -> 6 [] c = "7" -> 7 [] c = "8" -> 8 [] c = "9" -> 9

DigitChar(n) ==
    CASE n = 0 -> "0" [] n = 1 -> "1" [] n = 2 -> "2" [] n = 3 -> "3" [] n = 4 -> "4"
      [] n = 5 -> "5" [] n = 6 -> "6" [] n = 7 -> "7" [] n = 8 -> "8" [] n = 9 -> "9"

\* int(s) for a run of decimal digits.
RECURSIVE ToInt(_)
ToInt(s) ==
    IF s = <<>> THEN 0
    ELSE 10 * ToInt(SubSeq(s, 1, Len(s) - 1)) + DigitVal(s[Len(s)])

\* n formatted in decimal, zero-padded to width w (strftime's %Y, %m, %d).
RECURSIVE Pad(_, _)
Pad(n, w) ==
    IF w = 0 THEN <<>> ELSE Append(Pad(n \div 10, w - 1), DigitChar(n % 10))

\* s[i .. i+n-1] exists and is \d{n}.
IsDigits(s, i, n) ==
    /\ i + n - 1 <= Len(s)
    /\ \A k \in i..(i + n - 1) : s[k] \in Digits

\* os.path.basename: what follows the last "/".
Basename(path) ==
    LET slashes == {i \in 1..Len(path) : path[i] = "/"}
    IN  IF slashes = {} THEN path ELSE SubSeq(path, Max(slashes) + 1, Len(path))

\* re.match(r'^(\d+)', s).group(1); the empty text when there is no match.
LeadingDigits(s) ==
    LET n == CHOOSE k \in 0..Len(s) :
                 /\ \A j \in 1..k : s[j] \in Digits
                 /\ (k = Len(s) \/ s[k + 1] \notin Digits)
    IN  SubSeq(s, 1, n)

\* str.lstrip('0').
LStripZeros(s) ==
    LET n == CHOOSE k \in 0..Len(s) :
                 /\ \A j \in 1..k : s[j] = "0"
                 /\ (k = Len(s) \/ s[k + 1] # "0")
    IN  SubSeq(s, n + 1, Len(s))

\* \d{4}-\d{2}-\d{2} matches s at position i.
DatePatternAt(s, i) ==
    /\ i + 9 <= Len(s)
    /\ IsDigits(s, i, 4) /\ s[i + 4] = "-"
    /\ IsDigits(s, i + 5, 2) /\ s[i + 7] = "-"
    /\ IsDigits(s, i + 8, 2)

\* re.search(r'(\d{4}-\d{2}-\d{2})', s): group(1) of the leftmost match, or None.
SearchDate(s) ==
    LET hits == {i \in 1..Len(s) : DatePatternAt(s, i)}
    IN  IF hits = {} THEN None ELSE SubSeq(s, Min(hits), Min(hits) + 9)

-----------------------------------------------------------------------------
\* datetime: the proleptic Gregorian calendar, strptime and strftime.

IsLeap(y) == (y % 4 = 0 /\ y % 100 # 0) \/ y % 400 = 0

DaysInMonth(y, m) ==
    CASE m \in {1, 3, 5, 7, 8, 10, 12} -> 31
      [] m \in {4, 6, 9, 11} -> 30
      [] m = 2 -> IF IsLeap(y) THEN 29 ELSE 28

RECURSIVE DaysBeforeMonth(_, _)
DaysBeforeMonth(y, m) ==
    IF m = 1 THEN 0 ELSE DaysBeforeMonth(y, m - 1) + DaysInMonth(y, m - 1)

\* date.toordinal(): the number of days from 0001-01-01, which is day 1.
Ordinal(y, m, d) ==
    365 * (y - 1) + ((y - 1) \div 4) - ((y - 1) \div 100) + ((y - 1) \div 400)
        + DaysBeforeMonth(y, m) + d

\* The datetime constructor accepts the date.
ValidDate(y, m, d) ==
    /\ y >= 1
    /\ m \in 1..12
    /\ d >= 1 /\ d <= DaysInMonth(y, m)

ValidTime(h, mi, s) == h \in 0..23 /\ mi \in 0..59 /\ s \in 0..59

\* strptime's %y: 00..68 are 2000..2068, 69..99 are 1969..1999.
CenturyYear(yy) == IF yy <= 68 THEN 2000 + yy ELSE 1900 + yy

\* The result of a strptime that raised ValueError.
Invalid == [ok |-> FALSE, y |-> 0, m |-> 0, d |-> 0]

\* HH:MM:SS at position i of s.
ClockAt(s, i) ==
    /\ i + 7 <= Len(s)
    /\ IsDigits(s, i, 2) /\ s[i + 2] = ":"
    /\ IsDigits(s, i + 3, 2) /\ s[i + 5] = ":"
    /\ IsDigits(s, i + 6, 2)
    /\ ValidTime(ToInt(SubSeq(s, i, i + 1)), ToInt(SubSeq(s, i + 3, i + 4)),
                 ToInt(SubSeq(s, i + 6, i + 7)))

\* datetime.strptime(s, "%d/%m/%y, %H:%M:%S") on texts with two-digit fields.
StrptimeSlash(s) ==
    IF /\ Len(s) = 18
       /\ IsDigits(s, 1, 2) /\ s[3] = "/" /\ IsDigits(s, 4, 2) /\ s[6] = "/"
       /\ IsDigits(s, 7, 2) /\ s[9] = "," /\ s[10] \in Whitespace
       /\ ClockAt(s, 11)
       /\ ValidDate(CenturyYear(ToInt(SubSeq(s, 7, 8))), ToInt(SubSeq(s, 4, 5)),
                    ToInt(SubSeq(s, 1, 2)))
    THEN [ok |-> TRUE, y |-> CenturyYear(ToInt(SubSeq(s, 7, 8))),
          m |-> ToInt(SubSeq(s, 4, 5)), d |-> ToInt(SubSeq(s, 1, 2))]
    ELSE Invalid

\* datetime.strptime(s, "%d-%m-%Y, %H:%M:%S") on texts with fixed-width fields.
StrptimeDash(s) ==
    IF /\ Len(s) = 20
       /\ IsDigits(s, 1, 2) /\ s[3] = "-" /\ IsDigits(s, 4, 2) /\ s[6] = "-"
       /\ IsDigits(s, 7, 4) /\ s[11] = "," /\ s[12] \in Whitespace
       /\ ClockAt(s, 13)
       /\ ValidDate(ToInt(SubSeq(s, 7, 10)), ToInt(SubSeq(s, 4, 5)), ToInt(SubSeq(s, 1, 2)))
    THEN [ok |-> TRUE, y |-> ToInt(SubSeq(s, 7, 10)),
          m |-> ToInt(SubSeq(s, 4, 5)), d |-> ToInt(SubSeq(s, 1, 2))]
    ELSE Invalid

\* datetime.strptime(s, "%Y-%m-%d") on a text that matched \d{4}-\d{2}-\d{2}.
StrptimeYmd(s) ==
    IF /\ Len(s) = 10 /\ DatePatternAt(s, 1)
       /\ ValidDate(ToInt(SubSeq(s, 1, 4)), ToInt(SubSeq(s, 6, 7)), ToInt(SubSeq(s, 9, 10)))
    THEN [ok |-> TRUE, y |-> ToInt(SubSeq(s, 1, 4)),
          m |-> ToInt(SubSeq(s, 6, 7)), d |-> ToInt(SubSeq(s, 9, 10))]
    ELSE Invalid

\* date_obj.strftime("%Y-%m-%d"), for a year of four digits.
StrftimeYmd(t) == Pad(t.y, 4) \o <<"-">> \o Pad(t.m, 2) \o <<"-">> \o Pad(t.d, 2)

\* WhatsAppChatParser.extract_date_from_timestamp: the date of a transcript
\* timestamp as YYYY-MM-DD, None when strptime raises ValueError.
extract_date_from_timestamp(timestamp_str) ==
    LET date_obj == IF \E i \in 1..Len(timestamp_str) : timestamp_str[i] = "/"
                    THEN StrptimeSlash(timestamp_str)
                    ELSE StrptimeDash(timestamp_str)
    IN  IF date_obj.ok THEN StrftimeYmd(date_obj) ELSE None

\* abs((datetime.strptime(a, "%Y-%m-%d") - datetime.strptime(b, "%Y-%m-%d")).days)
\* for two texts that both parse.
DayDistance(a, b) ==
    LET ta == StrptimeYmd(a)
        tb == StrptimeYmd(b)
        diff == Ordinal(ta.y, ta.m, ta.d) - Ordinal(tb.y, tb.m, tb.d)
    IN  IF diff < 0 THEN -diff ELSE diff

-----------------------------------------------------------------------------
\* Dicts.  An unordered dict is a function; the ordered dict filename_mapping,
\* whose iteration order the correlator depends on, is a sequence of
\* [key, value] records in insertion order.

\* d[k] = v for an unordered dict.
DictSet(d, k, v) == [x \in DOMAIN d \cup {k} |-> IF x = k THEN v ELSE d[x]]

OrderedHas(od, k) == \E i \in 1..Len(od) : od[i].key = k

OrderedGet(od, k) == od[CHOOSE i \in 1..Len(od) : od[i].key = k].value

\* dict.setdefault(k, v): a key already present keeps its first value.
OrderedSetFirst(od, k, v) ==
    IF OrderedHas(od, k) THEN od ELSE Append(od, [key |-> k, value |-> v])

\* od[k] = v: a key already present keeps its position and takes the new value.
OrderedSet(od, k, v) ==
    IF OrderedHas(od, k)
    THEN [i \in 1..Len(od) |-> IF od[i].key = k THEN [key |-> k, value |-> v] ELSE od[i]]
    ELSE Append(od, [key |-> k, value |-> v])

\* The all-null entry of an unmatched image.
NullEntry == [name |-> None, phone |-> None, sent_date |-> None]

\* {'name': entry['contact_name'], 'phone': entry['contact_info'].get('phone'),
\*  'sent_date': entry['sent_date']}
EntryInfo(entry) ==
    [name |-> entry.contact_name, phone |-> entry.contact_info.phone,
     sent_date |-> entry.sent_date]

-----------------------------------------------------------------------------
\* WhatsAppChatParser.extract_phone_number.

\* re.match(r'^\+\d+\s\d+$', sender_name) succeeds.
SenderIsPhone(sender_name) ==
    /\ Len(sender_name) >= 4
    /\ sender_name[1] = "+"
    /\ \E k \in 2..(Len(sender_name) - 2) :
           /\ IsDigits(sender_name, 2, k - 1)
           /\ sender_name[k + 1] \in Whitespace
           /\ IsDigits(sender_name, k + 2, Len(sender_name) - k - 1)

\* The length of the match of \+\d{1,3}\s?\d{10} at position i of s, 0 when
\* there is none.  \d{1,3} and \s? are greedy: the longest digit prefix that lets
\* the rest match is taken.
PrefixedPhoneAt(s, i) ==
    LET Rest(n) == IF /\ i + n + 1 <= Len(s)
                      /\ s[i + n + 1] \in Whitespace
                      /\ IsDigits(s, i + n + 2, 10)
                   THEN 11
                   ELSE IF IsDigits(s, i + n + 1, 10) THEN 10 ELSE 0
        ok == {n \in 1..3 : IsDigits(s, i + 1, n) /\ Rest(n) # 0}
    IN  IF i <= Len(s) /\ s[i] = "+" /\ ok # {}
        THEN 1 + Max(ok) + Rest(Max(ok))
        ELSE 0

\* The length of the match of (\+\d{1,3}\s?\d{10}|\d{10}) at position i, 0 when
\* there is none.
PhoneAt(s, i) ==
    IF PrefixedPhoneAt(s, i) # 0 THEN PrefixedPhoneAt(s, i)
    ELSE IF IsDigits(s, i, 10) THEN 10 ELSE 0

\* The two rules in the other order: the body is searched first.
extract_phone_body_first(sender_name, message) ==
    LET hits == {i \in 1..Len(message) : PhoneAt(message, i) # 0}
    IN  IF hits # {}
        THEN SubSeq(message, Min(hits), Min(hits) + PhoneAt(message, Min(hits)) - 1)
        ELSE IF SenderIsPhone(sender_name) THEN sender_name ELSE None

\* Lines 77-88.
extract_phone_number(sender_name, message) ==
    LET hits == {i \in 1..Len(message) : PhoneAt(message, i) # 0}
    IN  IF SenderIsPhone(sender_name) THEN sender_name
        ELSE IF hits # {}
             THEN SubSeq(message, Min(hits), Min(hits) + PhoneAt(message, Min(hits)) - 1)
             ELSE None

-----------------------------------------------------------------------------
\* WhatsAppChatParser.parse_chat_file.

\* str.strip().
Strip(s) ==
    LET solid == {i \in 1..Len(s) : s[i] \notin Whitespace}
    IN  IF solid = {} THEN EmptyText ELSE SubSeq(s, Min(solid), Max(solid))

\* \d{2}/\d{2}/\d{2},\s\d{2}:\d{2}:\d{2} matches s at position i.
TimestampPatternAt(s, i) ==
    /\ i + 17 <= Len(s)
    /\ IsDigits(s, i, 2) /\ s[i + 2] = "/"
    /\ IsDigits(s, i + 3, 2) /\ s[i + 5] = "/"
    /\ IsDigits(s, i + 6, 2) /\ s[i + 8] = "," /\ s[i + 9] \in Whitespace
    /\ IsDigits(s, i + 10, 2) /\ s[i + 12] = ":"
    /\ IsDigits(s, i + 13, 2) /\ s[i + 15] = ":"
    /\ IsDigits(s, i + 16, 2)

NoMatch == [ok |-> FALSE, timestamp_str |-> None, contact_name |-> None, message |-> None]

\* chat_pattern.match(line) of line 26:
\*   ^[<U+200E>\s]*\[(timestamp)\]\s(.+?):\s(.+)$
\* The sender is the shortest non-empty text followed by a colon, a whitespace
\* character and at least one more character; the message is all that follows.
ChatMatch(line) ==
    LET lead == CHOOSE k \in 0..Len(line) :
                    /\ \A j \in 1..k : line[j] \in Whitespace \cup {"LRM"}
                    /\ (k = Len(line) \/ line[k + 1] \notin Whitespace \cup {"LRM"})
        body == lead + 22
        ends == {k \in body..(Len(line) - 2) :
                    /\ line[k + 1] = ":"
                    /\ line[k + 2] \in Whitespace
                    /\ k + 3 <= Len(line)}
    IN  IF /\ lead + 21 <= Len(line)
           /\ line[lead + 1] = "["
           /\ TimestampPatternAt(line, lead + 2)
           /\ line[lead + 20] = "]"
           /\ line[lead + 21] \in Whitespace
           /\ ends # {}
        THEN [ok |-> TRUE,
              timestamp_str |-> SubSeq(line, lead + 2, lead + 19),
              contact_name |-> SubSeq(line, body, Min(ends)),
              message |-> SubSeq(line, Min(ends) + 3, Len(line))]
        ELSE NoMatch

\* '<attached:'
AttachedOpen == <<"<", "a", "t", "t", "a", "c", "h", "e", "d", ":">>
\* '-PHOTO-'
PhotoWord == <<"-", "P", "H", "O", "T", "O", "-">>
\* '.jpg'
JpgClose == <<".", "j", "p", "g">>

\* \d{8}-PHOTO-\d{4}-\d{2}-\d{2}-\d{2}-\d{2}-\d{2}\.jpg matches s at position i
\* (38 characters).
PhotoNameAt(s, i) ==
    /\ i + 37 <= Len(s)
    /\ IsDigits(s, i, 8)
    /\ SubSeq(s, i + 8, i + 14) = PhotoWord
    /\ IsDigits(s, i + 15, 4)
    /\ \A k \in 0..4 : s[i + 19 + 3 * k] = "-" /\ IsDigits(s, i + 20 + 3 * k, 2)
    /\ SubSeq(s, i + 34, i + 37) = JpgClose

\* image_pattern of line 29 matches s at position i: the position of the
\* filename, 0 when there is no match.
AttachedAt(s, i) ==
    LET gap == CHOOSE k \in 0..Len(s) :
                   /\ \A j \in 1..k : i + 9 + j <= Len(s) /\ s[i + 9 + j] \in Whitespace
                   /\ (i + 10 + k > Len(s) \/ s[i + 10 + k] \notin Whitespace)
        at == i + 10 + gap
    IN  IF /\ i + 9 <= Len(s)
           /\ SubSeq(s, i, i + 9) = AttachedOpen
           /\ PhotoNameAt(s, at)
           /\ at + 38 <= Len(s)
           /\ s[at + 38] = ">"
        THEN at
        ELSE 0

\* group(1) of the rightmost match.
ImageSearchLast(message) ==
    LET hits == {i \in 1..Len(message) : AttachedAt(message, i) # 0}
    IN  IF hits = {} THEN None
        ELSE SubSeq(message, AttachedAt(message, Max(hits)),
                    AttachedAt(message, Max(hits)) + 37)

\* image_pattern.search(message) of line 58: group(1) of the leftmost match, or
\* None.
ImageSearch(message) ==
    LET hits == {i \in 1..Len(message) : AttachedAt(message, i) # 0}
    IN  IF hits = {} THEN None
        ELSE SubSeq(message, AttachedAt(message, Min(hits)),
                    AttachedAt(message, Min(hits)) + 37)

\* The table keyed by the phone number when one was extracted.
RegisterByPhone(table, contact_name, message) ==
    LET phone == extract_phone_number(contact_name, message)
        key == IF phone = None THEN contact_name ELSE phone
    IN  IF key \in DOMAIN table THEN table
        ELSE DictSet(table, key, [name |-> contact_name, phone |-> phone])

\* The re-registration of a sender whenever a later line yields a phone.
RegisterLatest(table, contact_name, message) ==
    LET phone == extract_phone_number(contact_name, message)
    IN  IF contact_name \in DOMAIN table /\ phone = None THEN table
        ELSE DictSet(table, contact_name, [name |-> contact_name, phone |-> phone])

\* Lines 51-55: the sender is registered when it is not yet a key.
Register(table, contact_name, message) ==
    IF contact_name \in DOMAIN table THEN table
    ELSE DictSet(table, contact_name,
                 [name |-> contact_name,
                  phone |-> extract_phone_number(contact_name, message)])

\* The dict parse_chat_file appends to image_entries (lines 64-70); contact_info
\* is the sender's dict of self.contacts.
Entry(timestamp_str, contact_name, contact_info, image_filename) ==
    [timestamp |-> timestamp_str,
     contact_name |-> contact_name,
     contact_info |-> contact_info,
     sent_date |-> timestamp_str,
     image_filename |-> image_filename]

\* A line that is no message line taken as the continuation of the last
\* message that emitted an event: its attachment becomes an event of that sender.
ParseOneLineStitched(table, stamps, entries, raw) ==
    LET line == Strip(raw)
        match == ChatMatch(line)
        registered == Register(table, match.contact_name, match.message)
        image_filename == ImageSearch(IF match.ok THEN match.message ELSE line)
        last == entries[Len(entries)]
    IN  IF line = EmptyText \/ (~match.ok /\ (entries = <<>> \/ image_filename = None))
        THEN [contacts |-> table, message_timestamps |-> stamps, image_entries |-> entries]
        ELSE IF ~match.ok
        THEN [contacts |-> table, message_timestamps |-> stamps,
              image_entries |->
                  Append(entries, Entry(last.timestamp, last.contact_name,
                                        last.contact_info, image_filename))]
        ELSE IF image_filename = None
        THEN [contacts |-> registered, message_timestamps |-> stamps,
              image_entries |-> entries]
        ELSE [contacts |-> registered,
              message_timestamps |-> DictSet(stamps, image_filename, match.timestamp_str),
              image_entries |->
                  Append(entries, Entry(match.timestamp_str, match.contact_name,
                                        registered[match.contact_name], image_filename))]

\* Lines 37-72: one pass of the loop over the lines of the file.
ParseOneLine(table, stamps, entries, raw) ==
    LET line == Strip(raw)
        match == ChatMatch(line)
        registered == Register(table, match.contact_name, match.message)
        image_filename == ImageSearch(match.message)
    IN  IF line = EmptyText \/ ~match.ok
        THEN [contacts |-> table, message_timestamps |-> stamps, image_entries |-> entries]
        ELSE IF image_filename = None
        THEN [contacts |-> registered, message_timestamps |-> stamps,
              image_entries |-> entries]
        ELSE [contacts |-> registered,
              message_timestamps |-> DictSet(stamps, image_filename, match.timestamp_str),
              image_entries |->
                  Append(entries, Entry(match.timestamp_str, match.contact_name,
                                        registered[match.contact_name], image_filename))]

-----------------------------------------------------------------------------
\* WhatsAppChatParser.map_images_to_contacts.

\* Lines 97-108: the filename -> contact dict built from the events.  An event
\* with a falsy image_filename adds nothing; a repeated filename keeps its first
\* position and takes the later event's contact.
RECURSIVE BuildFilenameMapping(_, _, _)
BuildFilenameMapping(entries, i, fm) ==
    IF i > Len(entries) THEN fm
    ELSE IF entries[i].image_filename \in {EmptyText, None}
         THEN BuildFilenameMapping(entries, i + 1, fm)
         ELSE BuildFilenameMapping(entries, i + 1,
                  OrderedSet(fm, entries[i].image_filename, EntryInfo(entries[i])))

\* The loop of lines 129-139 without its break: the last equal key wins.
NumberMatchLast(fm, img_filename) ==
    LET img_number == LeadingDigits(img_filename)
        hits == {i \in 1..Len(fm) :
                    /\ LeadingDigits(fm[i].key) # EmptyText
                    /\ LStripZeros(LeadingDigits(fm[i].key)) = LStripZeros(img_number)}
    IN  IF img_number = EmptyText \/ hits = {} THEN 0 ELSE Max(hits)

\* Lines 124-139: the position in filename_mapping of the first key whose leading
\* digit run equals the image's after lstrip('0'); 0 when the image has no
\* leading digits or no key compares equal.
NumberMatch(fm, img_filename) ==
    LET img_number == LeadingDigits(img_filename)
        hits == {i \in 1..Len(fm) :
                    /\ LeadingDigits(fm[i].key) # EmptyText
                    /\ LStripZeros(LeadingDigits(fm[i].key)) = LStripZeros(img_number)}
    IN  IF img_number = EmptyText \/ hits = {} THEN 0 ELSE Min(hits)

\* The exact-match test tried only after the number tier found nothing.
ExactAfterNumber(fm, img_filename) ==
    OrderedHas(fm, img_filename) /\ NumberMatch(fm, img_filename) = 0

\* Line 117: the exact-match test.
ExactTier(fm, img_filename) == OrderedHas(fm, img_filename)

\* Lines 149-150: closest_entry = None (0 here, else the event's position),
\* min_time_diff = float('inf'); raised tells that strptime raised ValueError.
NoClosest == [closest_entry |-> 0, min_time_diff |-> 0, raised |-> FALSE]

\* The comparison of line 157 written with <=: the last of several equally
\* close events is kept.
CloserOrEqual(time_diff, acc) == acc.closest_entry = 0 \/ time_diff <= acc.min_time_diff

\* Line 157: time_diff < min_time_diff, where min_time_diff is infinite until
\* the first event is taken.
Closer(time_diff, acc) == acc.closest_entry = 0 \/ time_diff < acc.min_time_diff

\* Lines 152-159: the scan over the events for the closest date.  The image's
\* date is parsed only next to an event whose timestamp parses, and an image
\* date that is no calendar date makes strptime raise there.
RECURSIVE ClosestScan(_, _, _, _)
ClosestScan(entries, img_date, i, acc) ==
    IF i > Len(entries) THEN acc
    ELSE LET entry_date == extract_date_from_timestamp(entries[i].timestamp)
         IN  IF entry_date = None THEN ClosestScan(entries, img_date, i + 1, acc)
             ELSE IF ~StrptimeYmd(img_date).ok THEN [acc EXCEPT !.raised = TRUE]
             ELSE IF Closer(DayDistance(img_date, entry_date), acc)
                  THEN ClosestScan(entries, img_date, i + 1,
                           [closest_entry |-> i,
                            min_time_diff |-> DayDistance(img_date, entry_date),
                            raised |-> FALSE])
                  ELSE ClosestScan(entries, img_date, i + 1, acc)

\* The test of line 161 allowing two days.
AcceptTwoDays(acc) == acc.closest_entry # 0 /\ acc.min_time_diff <= 2

\* Line 161: closest_entry and min_time_diff <= 1.
Accept(acc) == acc.closest_entry # 0 /\ acc.min_time_diff <= 1

\* Lines 113-176: one pass of the loop over image_files.  The result is the
\* accumulator self.image_contact_mapping after the pass and the branch taken:
\* "exact" (118), "number" (136), "present" (the test of line 142 fails without a
\* number match), "nodate" (line 145 fails), "date" (162), "null" (171) and
\* "raised" (ValueError out of line 155).
MapOneImage(mapping, fm, entries, img_path) ==
    LET img_filename == Basename(img_path)
        hit == NumberMatch(fm, img_filename)
        numbered == IF hit = 0 THEN mapping
                    ELSE DictSet(mapping, img_filename, fm[hit].value)
        img_date == SearchDate(img_filename)
        scan == ClosestScan(entries, img_date, 1, NoClosest)
    IN  IF ExactTier(fm, img_filename)
        THEN [mapping |-> DictSet(mapping, img_filename, OrderedGet(fm, img_filename)),
              branch |-> "exact"]
        ELSE IF img_filename \in DOMAIN numbered
        THEN [mapping |-> numbered, branch |-> IF hit = 0 THEN "present" ELSE "number"]
        ELSE IF img_date = None
        THEN [mapping |-> numbered, branch |-> "nodate"]
        ELSE IF scan.raised
        THEN [mapping |-> numbered, branch |-> "raised"]
        ELSE IF Accept(scan)
        THEN [mapping |-> DictSet(numbered, img_filename,
                                  EntryInfo(entries[scan.closest_entry])),
              branch |-> "date"]
        ELSE [mapping |-> DictSet(numbered, img_filename, NullEntry), branch |-> "null"]

-----------------------------------------------------------------------------
\* MaintenancePaymentProcessor.filter_images_by_month (main.py).

\* str.split('-'): the pieces of s between the hyphens.
RECURSIVE SplitHyphen(_)
SplitHyphen(s) ==
    LET hyphens == {i \in 1..Len(s) : s[i] = "-"}
    IN  IF hyphens = {} THEN <<s>>
        ELSE <<SubSeq(s, 1, Min(hyphens) - 1)>>
                 \o SplitHyphen(SubSeq(s, Min(hyphens) + 1, Len(s)))

\* re.search(r'(\d{4})-(\d{2})-\d{2}', filename) of line 93: the groups
\* (file_year, file_month) of the leftmost match, or None.
SearchYearMonth(filename) ==
    LET hits == {i \in 1..Len(filename) : DatePatternAt(filename, i)}
    IN  IF hits = {} THEN None
        ELSE <<SubSeq(filename, Min(hits), Min(hits) + 3),
               SubSeq(filename, Min(hits) + 5, Min(hits) + 6)>>

\* Lines 97 and 106 with every comparison made on numbers.
KeepImageNumeric(image_file, target_year, target_month, mod_date) ==
    LET date_match == SearchYearMonth(Basename(image_file))
    IN  IF date_match # None
        THEN /\ ToInt(date_match[1]) = ToInt(target_year)
             /\ ToInt(date_match[2]) = ToInt(target_month)
        ELSE /\ mod_date.year = ToInt(target_year)
             /\ mod_date.month = ToInt(target_month)

\* Lines 92-110: the decision for one file.  mod_date is the year and the month
\* of datetime.fromtimestamp(os.path.getmtime(image_file)).
KeepImage(image_file, target_year, target_month, mod_date) ==
    LET date_match == SearchYearMonth(Basename(image_file))
    IN  IF date_match # None
        THEN date_match[1] = target_year /\ date_match[2] = target_month
        ELSE /\ mod_date.year = ToInt(target_year)
             /\ mod_date.month = ToInt(target_month)

\* Lines 90-110: the loop over image_files, from position i on.
RECURSIVE FilterFrom(_, _, _, _, _)
FilterFrom(files, i, target_year, target_month, mtime) ==
    IF i > Len(files) THEN <<>>
    ELSE IF KeepImage(files[i], target_year, target_month, mtime[files[i]])
         THEN <<files[i]>> \o FilterFrom(files, i + 1, target_year, target_month, mtime)
         ELSE FilterFrom(files, i + 1, target_year, target_month, mtime)

\* Lines 85-113.  Line 88 raises ValueError unless month splits in two.
filter_images_by_month(files, month, mtime) ==
    LET parts == SplitHyphen(month)
    IN  IF Len(parts) # 2 THEN [raised |-> TRUE, filtered_files |-> <<>>]
        ELSE [raised |-> FALSE,
              filtered_files |-> FilterFrom(files, 1, parts[1], parts[2], mtime)]

-----------------------------------------------------------------------------
\* The inputs of the correlator when it is called directly.

\* '27/04/25, 12:44:30'
TsApr27 ==
    <<"2", "7", "/", "0", "4", "/", "2", "5", ",", " ", "1", "2", ":", "4", "4", ":", "3", "0">>
\* '29/04/25, 09:00:00'
TsApr29 ==
    <<"2", "9", "/", "0", "4", "/", "2", "5", ",", " ", "0", "9", ":", "0", "0", ":", "0", "0">>
\* '30-04-2025, 10:00:00'
TsDashApr30 ==
    <<"3", "0", "-", "0", "4", "-", "2", "0", "2", "5", ",", " ", "1", "0", ":", "0", "0", ":",
      "0", "0">>
\* '31/02/25, 08:00:00': no calendar date
TsFeb31 ==
    <<"3", "1", "/", "0", "2", "/", "2", "5", ",", " ", "0", "8", ":", "0", "0", ":", "0", "0">>
\* '28/02/24, 23:59:59': two days before 2024-03-01, 2024 being a leap year
TsLeapFeb28 ==
    <<"2", "8", "/", "0", "2", "/", "2", "4", ",", " ", "2", "3", ":", "5", "9", ":", "5", "9">>
\* 'John'
John == <<"J", "o", "h", "n">>
\* 'Bob'
Bob == <<"B", "o", "b">>
\* '+91 9876543210'
PhoneLabel == <<"+", "9", "1", " ", "9", "8", "7", "6", "5", "4", "3", "2", "1", "0">>
\* '01-2025-04-28.jpg'
FileDated == <<"0", "1", "-", "2", "0", "2", "5", "-", "0", "4", "-", "2", "8", ".", "j", "p", "g">>
\* '1-b.jpg'
File1b == <<"1", "-", "b", ".", "j", "p", "g">>
\* '02-c.jpg'
File02c == <<"0", "2", "-", "c", ".", "j", "p", "g">>
\* 'd/01-2025-04-28.jpg'
PathExact ==
    <<"d", "/", "0", "1", "-", "2", "0", "2", "5", "-", "0", "4", "-", "2", "8", ".", "j", "p",
      "g">>
\* 'IMG-2025-04-30.png'
PathApr30 ==
    <<"I", "M", "G", "-", "2", "0", "2", "5", "-", "0", "4", "-", "3", "0", ".", "p", "n", "g">>
\* 'IMG-2025-04-28.jpg'
PathTie ==
    <<"I", "M", "G", "-", "2", "0", "2", "5", "-", "0", "4", "-", "2", "8", ".", "j", "p", "g">>
\* 't/001-2025-05-01.jpg'
PathNumDate ==
    <<"t", "/", "0", "0", "1", "-", "2", "0", "2", "5", "-", "0", "5", "-", "0", "1", ".", "j",
      "p", "g">>
\* 'receipt.png'
PathPlain == <<"r", "e", "c", "e", "i", "p", "t", ".", "p", "n", "g">>
\* 'x-2024-03-01.jpg'
PathLeap == <<"x", "-", "2", "0", "2", "4", "-", "0", "3", "-", "0", "1", ".", "j", "p", "g">>
\* 'IMG-2025-13-01.jpg'
PathBadDate ==
    <<"I", "M", "G", "-", "2", "0", "2", "5", "-", "1", "3", "-", "0", "1", ".", "j", "p", "g">>
\* '2-r.jpg'
PathNum2 == <<"2", "-", "r", ".", "j", "p", "g">>

\* Events a caller may pass: two files with the same number, a repeated
\* filename, a timestamp in the dash format, one that is no date, and an event
\* without a filename.
EntryUniverse ==
    {Entry(TsApr27, John, [name |-> John, phone |-> None], FileDated),
     Entry(TsApr29, PhoneLabel, [name |-> PhoneLabel, phone |-> PhoneLabel], File1b),
     Entry(TsDashApr30, Bob, [name |-> Bob, phone |-> None], FileDated),
     Entry(TsFeb31, Bob, [name |-> Bob, phone |-> None], File02c),
     Entry(TsLeapFeb28, John, [name |-> John, phone |-> None], EmptyText)}

ImagePaths ==
    {PathExact, PathApr30, PathTie, PathNumDate, PathPlain, PathLeap, PathBadDate,
     PathNum2}

SeqsUpTo(S, n) == UNION {[1..k -> S] : k \in 0..n}

-----------------------------------------------------------------------------
\* The inputs of the parser: the lines a chat file may hold and the images of
\* the export directory.

\* '[27/04/25, 12:44:30] John Doe: <attached: 00000001-PHOTO-2025-04-27-12-44-28.jpg>'
LineJohnPhoto ==
    <<"[", "2", "7", "/", "0", "4", "/", "2", "5", ",", " ", "1", "2", ":", "4", "4", ":", "3",
      "0", "]", " ", "J", "o", "h", "n", " ", "D", "o", "e", ":", " ", "<", "a", "t", "t", "a",
      "c", "h", "e", "d", ":", " ", "0", "0", "0", "0", "0", "0", "0", "1", "-", "P", "H", "O",
      "T", "O", "-", "2", "0", "2", "5", "-", "0", "4", "-", "2", "7", "-", "1", "2", "-", "4",
      "4", "-", "2", "8", ".", "j", "p", "g", ">">>
\* '[28/04/25, 09:15:00] +91 9876543210: <attached: 00000001-PHOTO-2025-04-27-12-44-28.jpg>'
LinePhonePhoto ==
    <<"[", "2", "8", "/", "0", "4", "/", "2", "5", ",", " ", "0", "9", ":", "1", "5", ":", "0",
      "0", "]", " ", "+", "9", "1", " ", "9", "8", "7", "6", "5", "4", "3", "2", "1", "0", ":",
      " ", "<", "a", "t", "t", "a", "c", "h", "e", "d", ":", " ", "0", "0", "0", "0", "0", "0",
      "0", "1", "-", "P", "H", "O", "T", "O", "-", "2", "0", "2", "5", "-", "0", "4", "-", "2",
      "7", "-", "1", "2", "-", "4", "4", "-", "2", "8", ".", "j", "p", "g", ">">>
\* '\u200e[28/04/25, 10:00:00] John Doe: paid via 9876543210'
LineJohnPaid ==
    <<"LRM", "[", "2", "8", "/", "0", "4", "/", "2", "5", ",", " ", "1", "0", ":", "0", "0",
      ":", "0", "0", "]", " ", "J", "o", "h", "n", " ", "D", "o", "e", ":", " ", "p", "a", "i",
      "d", " ", "v", "i", "a", " ", "9", "8", "7", "6", "5", "4", "3", "2", "1", "0">>
\* '  <attached: 00000002-PHOTO-2025-04-28-10-00-01.jpg>\t'
LineContinuation ==
    <<" ", " ", "<", "a", "t", "t", "a", "c", "h", "e", "d", ":", " ", "0", "0", "0", "0", "0",
      "0", "0", "2", "-", "P", "H", "O", "T", "O", "-", "2", "0", "2", "5", "-", "0", "4", "-",
      "2", "8", "-", "1", "0", "-", "0", "0", "-", "0", "1", ".", "j", "p", "g", ">", "\t">>
\* '[29/04/25, 08:00:00] Bob: re: <attached:00000002-PHOTO-2025-04-29-08-00-00.jpg> <attached: 00000003-PHOTO-2025-04-29-08-00-01.jpg>'
LineBobTwo ==
    <<"[", "2", "9", "/", "0", "4", "/", "2", "5", ",", " ", "0", "8", ":", "0", "0", ":", "0",
      "0", "]", " ", "B", "o", "b", ":", " ", "r", "e", ":", " ", "<", "a", "t", "t", "a", "c",
      "h", "e", "d", ":", "0", "0", "0", "0", "0", "0", "0", "2", "-", "P", "H", "O", "T", "O",
      "-", "2", "0", "2", "5", "-", "0", "4", "-", "2", "9", "-", "0", "8", "-", "0", "0", "-",
      "0", "0", ".", "j", "p", "g", ">", " ", "<", "a", "t", "t", "a", "c", "h", "e", "d", ":",
      " ", "0", "0", "0", "0", "0", "0", "0", "3", "-", "P", "H", "O", "T", "O", "-", "2", "0",
      "2", "5", "-", "0", "4", "-", "2", "9", "-", "0", "8", "-", "0", "0", "-", "0", "1", ".",
      "j", "p", "g", ">">>
\* '  '
LineBlank == <<" ", " ">>
\* '[1/5/25, 10:00:00] Bob: <attached: 00000004-PHOTO-2025-05-01-10-00-00.jpg>'
LineShortDate ==
    <<"[", "1", "/", "5", "/", "2", "5", ",", " ", "1", "0", ":", "0", "0", ":", "0", "0", "]",
      " ", "B", "o", "b", ":", " ", "<", "a", "t", "t", "a", "c", "h", "e", "d", ":", " ", "0",
      "0", "0", "0", "0", "0", "0", "4", "-", "P", "H", "O", "T", "O", "-", "2", "0", "2", "5",
      "-", "0", "5", "-", "0", "1", "-", "1", "0", "-", "0", "0", "-", "0", "0", ".", "j", "p",
      "g", ">">>
\* 'temp/00000001-PHOTO-2025-04-27-12-44-28.jpg'
DiskPhoto1 ==
    <<"t", "e", "m", "p", "/", "0", "0", "0", "0", "0", "0", "0", "1", "-", "P", "H", "O", "T",
      "O", "-", "2", "0", "2", "5", "-", "0", "4", "-", "2", "7", "-", "1", "2", "-", "4", "4",
      "-", "2", "8", ".", "j", "p", "g">>
\* 'temp/00000002-receipt.jpg'
DiskReceipt2 ==
    <<"t", "e", "m", "p", "/", "0", "0", "0", "0", "0", "0", "0", "2", "-", "r", "e", "c", "e",
      "i", "p", "t", ".", "j", "p", "g">>
\* 'temp/IMG-2025-04-30.png'
DiskApr30 ==
    <<"t", "e", "m", "p", "/", "I", "M", "G", "-", "2", "0", "2", "5", "-", "0", "4", "-", "3",
      "0", ".", "p", "n", "g">>
\* 'temp/receipt.png'
DiskPlain == <<"t", "e", "m", "p", "/", "r", "e", "c", "e", "i", "p", "t", ".", "p", "n", "g">>

\* Message lines with and without a marker, a repeated filename, a line with two
\* markers, a continuation line that holds a marker, a blank line and a line
\* whose timestamp has one-digit fields.
LineUniverse ==
    {LineJohnPhoto, LinePhonePhoto, LineJohnPaid, LineContinuation, LineBobTwo,
     LineBlank, LineShortDate}

DiskImages == {DiskPhoto1, DiskReceipt2, DiskApr30, DiskPlain}

-----------------------------------------------------------------------------
\* The inputs of extract_phone_number and of filter_images_by_month.

\* '+91\t98'
LabelTab == <<"+", "9", "1", "\t", "9", "8">>
\* '+91 98x'
LabelLetter == <<"+", "9", "1", " ", "9", "8", "x">>
\* 'paid via '
LeadPaid == <<"p", "a", "i", "d", " ", "v", "i", "a", " ">>
\* 'to +'
LeadPlus == <<"t", "o", " ", "+">>
\* '9876543210'
CoreTen == <<"9", "8", "7", "6", "5", "4", "3", "2", "1", "0">>
\* '919876543210123'
CoreFifteen == <<"9", "1", "9", "8", "7", "6", "5", "4", "3", "2", "1", "0", "1", "2", "3">>
\* '91 9876543210'
CoreSpaced == <<"9", "1", " ", "9", "8", "7", "6", "5", "4", "3", "2", "1", "0">>
\* '123456789'
CoreNine == <<"1", "2", "3", "4", "5", "6", "7", "8", "9">>
\* '12 rupees'
CoreWords == <<"1", "2", " ", "r", "u", "p", "e", "e", "s">>
\* ' ok'
TrailOk == <<" ", "o", "k">>
\* '9 +4412345678901'
TrailDigits == <<"9", " ", "+", "4", "4", "1", "2", "3", "4", "5", "6", "7", "8", "9", "0", "1">>

\* '+91 9876543210', 'John Doe', '+91<TAB>98' and '+91 98x'.
SenderLabels == {PhoneLabel, John, LabelTab, LabelLetter}

\* Message bodies: a lead, a run of digits and a trail.
MessageBodies ==
    {lead \o core \o trail :
        lead \in {EmptyText, LeadPaid, LeadPlus},
        core \in {CoreTen, CoreFifteen, CoreSpaced, CoreNine, CoreWords},
        trail \in {EmptyText, TrailOk, TrailDigits}}

\* '2025-04'
Month2025_04 == <<"2", "0", "2", "5", "-", "0", "4">>
\* '2025-4'
Month2025_4 == <<"2", "0", "2", "5", "-", "4">>
\* '2025-05'
Month2025_05 == <<"2", "0", "2", "5", "-", "0", "5">>
\* '2024-04'
Month2024_04 == <<"2", "0", "2", "4", "-", "0", "4">>
\* '2025'
MonthYearOnly == <<"2", "0", "2", "5">>
\* '2025-05-01/receipt.png'
DatedDirPlain ==
    <<"2", "0", "2", "5", "-", "0", "5", "-", "0", "1", "/", "r", "e", "c", "e", "i", "p", "t",
      ".", "p", "n", "g">>
\* 'a-2024-04-01-2025-04-02.jpg'
TwoDates ==
    <<"a", "-", "2", "0", "2", "4", "-", "0", "4", "-", "0", "1", "-", "2", "0", "2", "5", "-",
      "0", "4", "-", "0", "2", ".", "j", "p", "g">>

Months == {Month2025_04, Month2025_4, Month2025_05, Month2024_04, MonthYearOnly}

\* A photo of the export, a file without a date in a directory that has one, a
\* file with two dates and a file without any.
FilterPaths == {DiskPhoto1, DatedDirPlain, TwoDates, DiskPlain}

\* The year and the month of a file's modification time.
ModDates ==
    {[year |-> 2025, month |-> 4], [year |-> 2025, month |-> 5], [year |-> 2024, month |-> 4]}

\* The modification times of the files.  Those of the files with a date in the
\* name, which the filter never reads, are held fixed.
ModTimes ==
    {mtime \in [FilterPaths -> ModDates] :
        \A f \in FilterPaths :
            SearchYearMonth(Basename(f)) # None => mtime[f] = [year |-> 2025, month |-> 5]}

-----------------------------------------------------------------------------
\* The parser object and its callers.

NoCall == [op |-> "none"]

\* WhatsAppChatParser.__init__, before any call.
FreshParser ==
    /\ chat_exists = TRUE
    /\ contacts = EmptyDict
    /\ image_contact_mapping = EmptyDict
    /\ message_timestamps = EmptyDict
    /\ pc = "idle"
    /\ transcript = <<>>
    /\ image_entries = <<>>
    /\ filename_mapping = <<>>
    /\ image_files = <<>>
    /\ branch = "none"
    /\ contact_mapping = EmptyDict
    /\ ncalls = [parse |-> 0, map |-> 0]

Init ==
    /\ FreshParser
    /\ first_run = NoCall
    /\ payment_run = NoCall
    /\ excel_call = NoCall
    /\ phone_call = NoCall
    /\ filter_call = NoCall

\* A call of extract_phone_number with any label and any body.
InitPhone ==
    /\ FreshParser
    /\ first_run = NoCall
    /\ payment_run = NoCall
    /\ excel_call = NoCall
    /\ filter_call = NoCall
    /\ phone_call \in [op : {"called"}, sender_name : SenderLabels,
                       message : MessageBodies, result : {None}]

\* A call of filter_images_by_month with any list of files, any month and any
\* modification times.
InitFilter ==
    /\ FreshParser
    /\ first_run = NoCall
    /\ payment_run = NoCall
    /\ excel_call = NoCall
    /\ phone_call = NoCall
    /\ filter_call \in [op : {"called"}, image_files : SeqsUpTo(FilterPaths, MaxImages),
                        month : Months, mtime : ModTimes, raised : {FALSE},
                        filtered_files : {<<>>}]

\* parse_chat_file(path) is entered and line 20 finds the file: lines 18-35.
ParseEnter ==
    /\ ncalls.parse < MaxCalls
    /\ pc' = "parsing"
    /\ chat_exists' = TRUE
    /\ ncalls' = [ncalls EXCEPT !.parse = @ + 1]
    /\ transcript' = <<>>
    /\ image_entries' = <<>>
    /\ UNCHANGED <<run_vars, contacts, image_contact_mapping, message_timestamps,
                   filename_mapping, image_files, branch, contact_mapping,
                   phone_call, filter_call>>

\* parse_chat_file(path) with a path that does not exist: lines 18-22 return {},
\* which the caller iterates as an empty list of events.
ParseAbsent ==
    /\ ncalls.parse < MaxCalls
    /\ pc' = "parsed"
    /\ chat_exists' = FALSE
    /\ ncalls' = [ncalls EXCEPT !.parse = @ + 1]
    /\ transcript' = <<>>
    /\ image_entries' = <<>>
    /\ UNCHANGED <<run_vars, contacts, image_contact_mapping, message_timestamps,
                   filename_mapping, image_files, branch, contact_mapping,
                   phone_call, filter_call>>

\* The first call on a freshly constructed parser.
ParseBegin == pc = "idle" /\ ParseEnter

ParseMissing == pc = "idle" /\ ParseAbsent

\* A later call of parse_chat_file on the same parser.
ParseAgain == pc = "parsed" /\ (ParseEnter \/ ParseAbsent)

\* One pass of the loop of lines 36-72 over the next line of the file.
ParseLine ==
    \E raw \in LineUniverse :
        /\ pc = "parsing"
        /\ Len(transcript) < MaxLines
        /\ LET r == ParseOneLine(contacts, message_timestamps, image_entries, raw)
           IN  /\ contacts' = r.contacts
               /\ message_timestamps' = r.message_timestamps
               /\ image_entries' = r.image_entries
        /\ transcript' = Append(transcript, raw)
        /\ UNCHANGED <<run_vars, chat_exists, image_contact_mapping, pc, filename_mapping,
                       image_files, branch, contact_mapping, ncalls, phone_call,
                       filter_call>>

\* The file is exhausted: line 75 returns image_entries.
ParseReturn ==
    /\ pc = "parsing"
    /\ pc' = "parsed"
    /\ UNCHANGED <<run_vars, chat_exists, contacts, image_contact_mapping, message_timestamps,
                   transcript, image_entries, filename_mapping, image_files, branch,
                   contact_mapping, ncalls, phone_call, filter_call>>

\* map_images_to_contacts entered with a mapping of its own for each call.
MapEnterFresh(entries) ==
    /\ pc' = "mapping"
    /\ ncalls' = [ncalls EXCEPT !.map = @ + 1]
    /\ image_entries' = entries
    /\ filename_mapping' = BuildFilenameMapping(entries, 1, <<>>)
    /\ image_files' = <<>>
    /\ branch' = "none"
    /\ image_contact_mapping' = EmptyDict
    /\ UNCHANGED <<run_vars, chat_exists, contacts, message_timestamps,
                   transcript, contact_mapping, phone_call, filter_call>>

\* map_images_to_contacts(image_files, entries) is entered: lines 94-111.
MapEnter(entries) ==
    /\ pc' = "mapping"
    /\ ncalls' = [ncalls EXCEPT !.map = @ + 1]
    /\ image_entries' = entries
    /\ filename_mapping' = BuildFilenameMapping(entries, 1, <<>>)
    /\ image_files' = <<>>
    /\ branch' = "none"
    /\ UNCHANGED <<run_vars, chat_exists, contacts, image_contact_mapping, message_timestamps,
                   transcript, contact_mapping, phone_call, filter_call>>

\* A caller passes a list of events of its own to a freshly constructed parser.
MapBeginAny ==
    \E entries \in SeqsUpTo(EntryUniverse, MaxEvents) : pc = "idle" /\ MapEnter(entries)

\* The caller passes on what parse_chat_file returned (process_chat_export,
\* lines 213-216; test_parser_mapping, lines 34-40).
MapBeginParsed == pc = "parsed" /\ ncalls.parse = 1 /\ MapEnter(image_entries)

\* One pass of the loop of lines 112-176 over the next image path of the list.
\* A ValueError leaves the method without a return value.
MapStep(img_path) ==
    /\ pc = "mapping"
    /\ Len(image_files) < MaxImages
    /\ LET r == MapOneImage(image_contact_mapping, filename_mapping,
                            image_entries, img_path)
       IN  /\ image_contact_mapping' = r.mapping
           /\ branch' = r.branch
           /\ pc' = IF r.branch = "raised" THEN "raised" ELSE "mapping"
    /\ image_files' = Append(image_files, img_path)
    /\ UNCHANGED <<run_vars, chat_exists, contacts, message_timestamps, transcript, image_entries,
                   filename_mapping, contact_mapping, ncalls, phone_call, filter_call>>

MapImage == \E img_path \in ImagePaths : MapStep(img_path)

\* The paths of a directory listing (process_chat_export, line 209) are distinct.
MapDiskImage ==
    \E img_path \in DiskImages :
        /\ \A i \in 1..Len(image_files) : image_files[i] # img_path
        /\ MapStep(img_path)

\* The list is exhausted: line 179 returns the accumulator itself.
MapReturn ==
    /\ pc = "mapping"
    /\ pc' = "mapped"
    /\ contact_mapping' = image_contact_mapping
    /\ UNCHANGED <<run_vars, chat_exists, contacts, image_contact_mapping, message_timestamps,
                   transcript, image_entries, filename_mapping, image_files, branch,
                   ncalls, phone_call, filter_call>>

\* process_chat_export on a directory without a chat file (lines 196-203): the
\* images the caller found on disk get no mapping at all, {} is returned.
ExportNoChat ==
    \E on_disk \in SeqsUpTo(DiskImages, MaxImages) :
        /\ pc = "idle"
        /\ \A i, j \in 1..Len(on_disk) : on_disk[i] = on_disk[j] => i = j
        /\ pc' = "exported"
        /\ image_files' = on_disk
        /\ contact_mapping' = EmptyDict
        /\ UNCHANGED <<run_vars, chat_exists, contacts, image_contact_mapping, message_timestamps,
                       transcript, image_entries, filename_mapping, branch, ncalls,
                       phone_call, filter_call>>

\* extract_phone_number(sender_name, message) runs on the arguments of the call.
ExtractPhone ==
    /\ phone_call.op = "called"
    /\ phone_call' = [phone_call EXCEPT
                         !.op = "returned",
                         !.result = extract_phone_number(phone_call.sender_name,
                                                         phone_call.message)]
    /\ UNCHANGED <<run_vars, chat_exists, contacts, image_contact_mapping, message_timestamps,
                   pc, transcript, image_entries, filename_mapping, image_files,
                   branch, contact_mapping, ncalls, filter_call>>

\* filter_images_by_month(image_files, month) runs on the arguments of the call.
FilterImages ==
    /\ filter_call.op = "called"
    /\ LET r == filter_images_by_month(filter_call.image_files, filter_call.month,
                                       filter_call.mtime)
       IN  filter_call' = [filter_call EXCEPT
                              !.op = "returned",
                              !.raised = r.raised,
                              !.filtered_files = r.filtered_files]
    /\ UNCHANGED <<run_vars, chat_exists, contacts, image_contact_mapping, message_timestamps,
                   pc, transcript, image_entries, filename_mapping, image_files,
                   branch, contact_mapping, ncalls, phone_call>>

\* The correlator called directly, with any events, on a fresh parser.
NextCorrelate == MapBeginAny \/ MapImage \/ MapReturn

SpecCorrelate == Init /\ [][NextCorrelate]_vars

\* parse_chat_file alone, called up to MaxCalls times on one parser.
NextParse == ParseBegin \/ ParseMissing \/ ParseAgain \/ ParseLine \/ ParseReturn

SpecParse == Init /\ [][NextParse]_vars

\* The phone extractor alone.
NextPhone == ExtractPhone

SpecPhone == InitPhone /\ [][NextPhone]_vars

\* The month filter alone.
NextFilter == FilterImages

SpecFilter == InitFilter /\ [][NextFilter]_vars

\* One run over an export directory: process_chat_export, or parse_chat_file
\* followed by map_images_to_contacts as in test_parser_mapping.
Next ==
    \/ ParseBegin \/ ParseMissing \/ ParseLine \/ ParseReturn
    \/ MapBeginParsed \/ MapDiskImage \/ MapReturn
    \/ ExportNoChat

Spec == Init /\ [][Next]_vars

-----------------------------------------------------------------------------
\* What the claims speak about: the image the loop has just taken and the
\* events of the call.

\* The basename of the image path the loop took last.
CurName == Basename(image_files[Len(image_files)])

\* The loop of map_images_to_contacts has finished a pass without raising.
PassDone == pc \in {"mapping", "mapped"} /\ image_files # <<>>

\* The attachment filenames of the events.
EventNames ==
    {image_entries[i].image_filename : i \in 1..Len(image_entries)} \ {EmptyText, None}

\* The contact of the last event, in transcript order, that carries filename f.
LastNamed(f) ==
    EntryInfo(image_entries[Max({i \in 1..Len(image_entries) :
                                    image_entries[i].image_filename = f})])

\* The position of the first event that carries filename f.
FirstSeen(f) == Min({i \in 1..Len(image_entries) : image_entries[i].image_filename = f})

\* The event filenames whose leading digit run equals, leading zeros stripped,
\* the leading digit run of b.
NumberCandidates(b) ==
    {f \in EventNames :
        /\ LeadingDigits(b) # EmptyText
        /\ LeadingDigits(f) # EmptyText
        /\ LStripZeros(LeadingDigits(f)) = LStripZeros(LeadingDigits(b))}

\* The positions of the events whose timestamp is a date.
Dated == {i \in 1..Len(image_entries) :
             extract_date_from_timestamp(image_entries[i].timestamp) # None}

\* The distance in days between the date embedded in b and event i.
DaysFrom(b, i) ==
    DayDistance(SearchDate(b), extract_date_from_timestamp(image_entries[i].timestamp))

\* b embeds a text YYYY-MM-DD that is a calendar date.
HasCalendarDate(b) == SearchDate(b) # None /\ StrptimeYmd(SearchDate(b)).ok

\* The dated events with their distance in days from b's date, as pairs
\* <<position, distance>>.
Distances(b) ==
    LET img_date == SearchDate(b)
    IN  {<<i, DayDistance(img_date, extract_date_from_timestamp(image_entries[i].timestamp))>> :
            i \in Dated}

\* The positions of the events at the least distance from b's date.
Nearest(b) ==
    LET distances == Distances(b)
    IN  {p[1] : p \in {q \in distances : \A r \in distances : q[2] <= r[2]}}

-----------------------------------------------------------------------------
\* Claims about map_images_to_contacts called directly (SpecCorrelate).

\* C1 (as stated): on a freshly constructed parser the returned mapping has a
\* key for the basename of every image path of the list and no other key, and
\* an image with no exact match, no leading-digit match and no embedded date has
\* the all-null entry.
C1_Total ==
    pc = "mapped" =>
        /\ DOMAIN contact_mapping =
               {Basename(image_files[i]) : i \in 1..Len(image_files)}
        /\ \A i \in 1..Len(image_files) :
               LET b == Basename(image_files[i])
               IN  (b \notin EventNames /\ NumberCandidates(b) = {} /\ SearchDate(b) = None)
                       => /\ b \in DOMAIN contact_mapping
                          /\ contact_mapping[b] = NullEntry

\* C2: the tiers are tried in order and the first success decides.  An image
\* whose basename is an event filename gets the contact of that filename, even
\* when another event is a leading-digit or a closest-date candidate; an image
\* with a leading-digit candidate and no exact match gets the contact of a
\* leading-digit candidate, never that of the closest date.
C2_TierOrder ==
    PassDone =>
        /\ CurName \in EventNames =>
               image_contact_mapping[CurName] = LastNamed(CurName)
        /\ (CurName \notin EventNames /\ NumberCandidates(CurName) # {}) =>
               image_contact_mapping[CurName] \in
                   {LastNamed(f) : f \in NumberCandidates(CurName)}

\* An exact match was taken although an earlier event with another contact is a
\* leading-digit candidate and is as close in days as any event.
C2_Witness ==
    /\ PassDone
    /\ CurName \in EventNames
    /\ HasCalendarDate(CurName)
    /\ \E f \in NumberCandidates(CurName) :
           /\ FirstSeen(f) < FirstSeen(CurName)
           /\ FirstSeen(f) \in Nearest(CurName)
           /\ DaysFrom(CurName, FirstSeen(f)) <= 1
           /\ LastNamed(f) # image_contact_mapping[CurName]

\* C3: when the closest-date tier assigns an image and several events are at
\* the least distance from its date, the image gets the contact of the one that
\* comes first in the event sequence.
C3_TieBreak ==
    (PassDone /\ branch = "date") =>
        LET nearest == Nearest(CurName)
        IN  Cardinality(nearest) >= 2 =>
                image_contact_mapping[CurName] = EntryInfo(image_entries[Min(nearest)])

\* Two events with different contacts are equally close and the first was taken.
C3_Witness ==
    /\ PassDone
    /\ branch = "date"
    /\ Cardinality(Nearest(CurName)) >= 2
    /\ EntryInfo(image_entries[Max(Nearest(CurName))])
           # EntryInfo(image_entries[Min(Nearest(CurName))])

\* C4: an image that reaches the closest-date tier with an embedded calendar
\* date gets the contact of an event at the least distance exactly when that
\* distance is 0 or 1 day; at 2 days or more, and whenever no event has a
\* timestamp that is a date, its entry is all-null.
C4_DistanceBound ==
    (PassDone /\ branch \in {"date", "null"}) =>
        IF HasCalendarDate(CurName) /\ \E p \in Distances(CurName) : p[2] <= 1
        THEN /\ branch = "date"
             /\ image_contact_mapping[CurName] \in
                    {EntryInfo(image_entries[i]) : i \in Nearest(CurName)}
        ELSE /\ branch = "null"
             /\ image_contact_mapping[CurName] = NullEntry

\* The nearest event is exactly 2 days away, across the end of February of a
\* leap year or not, and the image is left unmatched.
C4_Witness ==
    /\ PassDone
    /\ branch = "null"
    /\ HasCalendarDate(CurName)
    /\ Dated # {}
    /\ \A i \in Nearest(CurName) : DaysFrom(CurName, i) = 2
    /\ image_contact_mapping[CurName] = NullEntry

\* C5: an image with no exact match and at least one leading-digit candidate
\* gets the contact recorded for the candidate filename that was discovered
\* first, with or without an embedded date.
C5_LeadingDigits ==
    (PassDone /\ CurName \notin EventNames /\ NumberCandidates(CurName) # {}) =>
        LET first == CHOOSE f \in NumberCandidates(CurName) :
                         \A g \in NumberCandidates(CurName) : FirstSeen(f) <= FirstSeen(g)
        IN  image_contact_mapping[CurName] = LastNamed(first)

\* Two candidate filenames with different contacts, and an image that embeds a
\* date one day from the later candidate's event.
C5_Witness ==
    /\ PassDone
    /\ CurName \notin EventNames
    /\ Cardinality({LastNamed(f) : f \in NumberCandidates(CurName)}) = 2
    /\ HasCalendarDate(CurName)
    /\ \E i \in Nearest(CurName) :
           /\ DaysFrom(CurName, i) <= 1
           /\ EntryInfo(image_entries[i]) # image_contact_mapping[CurName]

-----------------------------------------------------------------------------
\* Claims about one run over an export directory (Spec).

\* The positions of the transcript lines that are message lines carrying an
\* attachment marker for filename f.
LinesAttaching(f) ==
    {i \in 1..Len(transcript) :
        LET line == ChatMatch(Strip(transcript[i]))
        IN  line.ok /\ ImageSearch(line.message) = f}

\* C6: an image whose basename is the attachment filename of an event gets the
\* sender of the last transcript line carrying that filename, the phone the
\* Contact table records for that sender, and the raw timestamp of that line.
C6_ExactEntry ==
    PassDone =>
        LET carrying == LinesAttaching(CurName)
            line == ChatMatch(Strip(transcript[Max(carrying)]))
        IN  carrying # {} =>
                image_contact_mapping[CurName] =
                    [name |-> line.contact_name,
                     phone |-> contacts[line.contact_name].phone,
                     sent_date |-> line.timestamp_str]

\* Two lines of different senders carry the image's filename, and the sender
\* of the later line has a phone in the Contact table.
C6_Witness ==
    /\ PassDone
    /\ Cardinality(LinesAttaching(CurName)) = 2
    /\ ChatMatch(Strip(transcript[Min(LinesAttaching(CurName))])).contact_name
           # image_contact_mapping[CurName].name
    /\ image_contact_mapping[CurName].phone # None

\* C7 (as stated): with no chat file in the export directory, or a path that
\* does not exist, nothing is raised, the Contact table and the event sequence
\* are empty, and the mapping handed on has an all-null entry for every image on
\* disk.
C7_MissingTranscript ==
    /\ ~chat_exists => (contacts = EmptyDict /\ image_entries = <<>> /\ pc # "raised")
    /\ (pc = "exported" \/ (pc = "mapped" /\ ~chat_exists)) =>
           \A i \in 1..Len(image_files) :
               /\ Basename(image_files[i]) \in DOMAIN contact_mapping
               /\ contact_mapping[Basename(image_files[i])] = NullEntry

-----------------------------------------------------------------------------
\* Claims about parse_chat_file (SpecParse).

\* The sender labels of the message lines of the transcript just read.
SendersRead ==
    {ChatMatch(Strip(transcript[i])).contact_name :
        i \in {j \in 1..Len(transcript) : ChatMatch(Strip(transcript[j])).ok}}

\* C8 (as stated): after parse_chat_file the Contact table has at most as many
\* entries as there are distinct sender labels in the message lines of that
\* transcript.
C8_ContactsBounded ==
    pc = "parsed" => Cardinality(DOMAIN contacts) <= Cardinality(SendersRead)

\* C8 (amended): the same, for parse_chat_file called on a freshly constructed
\* parser.
C8_FirstParse ==
    (pc = "parsed" /\ ncalls.parse = 1) =>
        Cardinality(DOMAIN contacts) <= Cardinality(SendersRead)

\* A first parse read two message lines of one sender, the second of which
\* holds a phone number, and registered one contact.
C8_Witness ==
    /\ pc = "parsed"
    /\ ncalls.parse = 1
    /\ Len(transcript) = 2
    /\ Cardinality(SendersRead) = 1
    /\ \A i \in 1..2 : ChatMatch(Strip(transcript[i])).ok
    /\ extract_phone_number(ChatMatch(Strip(transcript[2])).contact_name,
                            ChatMatch(Strip(transcript[2])).message) # None
    /\ Cardinality(DOMAIN contacts) = 1

-----------------------------------------------------------------------------
\* Claims about extract_phone_number (SpecPhone).

\* s is '+', digits, one whitespace character, digits.
LabelShape(s) ==
    \E a \in 1..Len(s), b \in 1..Len(s) :
        /\ Len(s) = 2 + a + b
        /\ s[1] = "+"
        /\ IsDigits(s, 2, a)
        /\ s[2 + a] \in Whitespace
        /\ IsDigits(s, 3 + a, b)

\* t is a run of 10 digits, or '+', 1 to 3 digits, at most one whitespace
\* character and 10 digits.
PhoneText(t) ==
    \/ Len(t) = 10 /\ IsDigits(t, 1, 10)
    \/ /\ Len(t) >= 12
       /\ t[1] = "+"
       /\ \E k \in 1..3 :
              /\ IsDigits(t, 2, k)
              /\ \/ Len(t) = 11 + k /\ IsDigits(t, 2 + k, 10)
                 \/ Len(t) = 12 + k /\ t[2 + k] \in Whitespace /\ IsDigits(t, 3 + k, 10)

\* The phone texts that start at position i of m.
PhoneTextsAt(m, i) ==
    {t \in {SubSeq(m, i, i + n - 1) : n \in 10..(Len(m) - i + 1)} : PhoneText(t)}

\* The positions of m where a phone text starts.
PhoneStarts(m) == {i \in 1..Len(m) : PhoneTextsAt(m, i) # {}}

\* C9: a label of the shape '+digits space digits' is returned verbatim whatever
\* the body holds; otherwise the result is a phone text of the body that starts
\* at the leftmost position where one starts; otherwise it is None.
C9_PhoneRules ==
    phone_call.op = "returned" =>
        IF LabelShape(phone_call.sender_name)
        THEN phone_call.result = phone_call.sender_name
        ELSE IF PhoneStarts(phone_call.message) # {}
             THEN phone_call.result \in
                      PhoneTextsAt(phone_call.message, Min(PhoneStarts(phone_call.message)))
             ELSE phone_call.result = None

\* The label has the shape and the body holds another phone number.
C9_Witness ==
    /\ phone_call.op = "returned"
    /\ LabelShape(phone_call.sender_name)
    /\ PhoneStarts(phone_call.message) # {}
    /\ phone_call.sender_name \notin
           PhoneTextsAt(phone_call.message, Min(PhoneStarts(phone_call.message)))
    /\ phone_call.result = phone_call.sender_name

-----------------------------------------------------------------------------
\* Claims about filter_images_by_month (SpecFilter).

\* The two fields of the target month.
TargetYear == SplitHyphen(filter_call.month)[1]

TargetMonth == SplitHyphen(filter_call.month)[2]

\* C10: a file whose basename embeds a date YYYY-MM-DD is included exactly when
\* the embedded year and month equal the target's fields as texts; a file
\* without one exactly when the year and month of its modification time equal
\* the target's as numbers; the result holds the included files and no others.
C10_MonthFilter ==
    (filter_call.op = "returned" /\ ~filter_call.raised) =>
        LET Included(f) ==
                IF SearchDate(Basename(f)) # None
                THEN /\ SubSeq(SearchDate(Basename(f)), 1, 4) = TargetYear
                     /\ SubSeq(SearchDate(Basename(f)), 6, 7) = TargetMonth
                ELSE /\ filter_call.mtime[f].year = ToInt(TargetYear)
                     /\ filter_call.mtime[f].month = ToInt(TargetMonth)
        IN  filter_call.filtered_files = SelectSeq(filter_call.image_files, Included)

\* Under the target '2025-4' a file that embeds 2025-04 is left out and a file
\* without a date, modified in April 2025, is kept.
C10_Witness ==
    /\ filter_call.op = "returned"
    /\ filter_call.month = Month2025_4
    /\ filter_call.image_files = <<DiskPhoto1, DatedDirPlain>>
    /\ filter_call.mtime[DatedDirPlain] = [year |-> 2025, month |-> 4]
    /\ filter_call.filtered_files = <<DatedDirPlain>>

-----------------------------------------------------------------------------
\* A second run over the same export on the same parser object.

\* parse_chat_file over a whole file: the loop of lines 36-72 from line i on.
\* The result of each pass is one value, bound once and handed to the next pass.
RECURSIVE ParseLines(_, _, _, _, _)
ParseLines(table, stamps, entries, lines, i) ==
    IF i > Len(lines)
    THEN [contacts |-> table, message_timestamps |-> stamps, image_entries |-> entries]
    ELSE CHOOSE rest \in
             {ParseLines(r.contacts, r.message_timestamps, r.image_entries, lines, i + 1) :
                  r \in {ParseOneLine(table, stamps, entries, lines[i])}} : TRUE

\* map_images_to_contacts over a whole list: the loop of lines 112-176 from
\* path i on.  A ValueError ends the loop.
RECURSIVE MapImages(_, _, _, _, _)
MapImages(mapping, fm, entries, paths, i) ==
    IF i > Len(paths)
    THEN [mapping |-> mapping, raised |-> FALSE]
    ELSE CHOOSE rest \in
             {IF r.branch = "raised"
              THEN [mapping |-> r.mapping, raised |-> TRUE]
              ELSE MapImages(r.mapping, fm, entries, paths, i + 1) :
                  r \in {MapOneImage(mapping, fm, entries, paths[i])}} : TRUE

\* The caller keeps what the first run returned and calls parse_chat_file on the
\* same path again: the whole of lines 13-75 on the parser as the first run left
\* it.  A path that did not exist still does not.
Reparse ==
    /\ pc = "mapped"
    /\ first_run.op = "none"
    /\ first_run' = [op |-> "done", image_entries |-> image_entries, contacts |-> contacts,
                     contact_mapping |-> contact_mapping]
    /\ \E r \in {ParseLines(contacts, message_timestamps, <<>>, transcript, 1)} :
           /\ contacts' = r.contacts
           /\ message_timestamps' = r.message_timestamps
           /\ image_entries' = r.image_entries
    /\ pc' = "reparsed"
    /\ ncalls' = [ncalls EXCEPT !.parse = @ + 1]
    /\ UNCHANGED <<payment_run, excel_call, chat_exists, image_contact_mapping, transcript,
                   filename_mapping, image_files, branch, contact_mapping, phone_call,
                   filter_call>>

\* The caller calls map_images_to_contacts again with the same image paths and
\* the events of the second parse: the whole of lines 90-179.
Remap ==
    /\ pc = "reparsed"
    /\ \E fm \in {BuildFilenameMapping(image_entries, 1, <<>>)} :
       \E r \in {MapImages(image_contact_mapping, fm, image_entries, image_files, 1)} :
           /\ filename_mapping' = fm
           /\ image_contact_mapping' = r.mapping
           /\ pc' = IF r.raised THEN "raised" ELSE "remapped"
           /\ contact_mapping' = IF r.raised THEN contact_mapping ELSE r.mapping
    /\ ncalls' = [ncalls EXCEPT !.map = @ + 1]
    /\ UNCHANGED <<run_vars, chat_exists, contacts, message_timestamps, transcript,
                   image_entries, image_files, branch, phone_call, filter_call>>

NextRerun ==
    \/ ParseBegin \/ ParseMissing \/ ParseLine \/ ParseReturn
    \/ MapBeginParsed \/ MapDiskImage \/ MapReturn
    \/ Reparse \/ Remap

SpecRerun == Init /\ [][NextRerun]_vars

\* C11: a second parse of the same transcript and a second correlation of the
\* same images on the same parser give the event sequence, the Contact table
\* and the mapping that the first run gave.
C11_Idempotent ==
    /\ pc \in {"reparsed", "remapped"} =>
           /\ image_entries = first_run.image_entries
           /\ contacts = first_run.contacts
    /\ pc = "remapped" => contact_mapping = first_run.contact_mapping

\* The second run met a Contact table that already held every sender and a
\* mapping that already held an entry the closest-date tier had matched, which
\* line 142 then leaves alone.
C11_Witness ==
    /\ pc = "remapped"
    /\ Len(first_run.image_entries) >= 1
    /\ first_run.contacts # EmptyDict
    /\ \E i \in 1..Len(image_files) :
           /\ Basename(image_files[i]) \notin EventNames
           /\ NumberCandidates(Basename(image_files[i])) = {}
           /\ Basename(image_files[i]) \in DOMAIN first_run.contact_mapping
           /\ contact_mapping[Basename(image_files[i])] # NullEntry

-----------------------------------------------------------------------------
\* MaintenancePaymentProcessor.process_payments (main.py) from line 164 on, with
\* the OCR and the extraction collaborators as inputs.

\* An exception raised by a collaborator.
Raises == <<"raises">>

\* The month names of strftime's %b.
MonthAbbr ==
    <<<<"J", "a", "n">>,
      <<"F", "e", "b">>,
      <<"M", "a", "r">>,
      <<"A", "p", "r">>,
      <<"M", "a", "y">>,
      <<"J", "u", "n">>,
      <<"J", "u", "l">>,
      <<"A", "u", "g">>,
      <<"S", "e", "p">>,
      <<"O", "c", "t">>,
      <<"N", "o", "v">>,
      <<"D", "e", "c">>>>

\* strftime's %I: the hour on a 12-hour clock.
Hour12(h) == IF h % 12 = 0 THEN 12 ELSE h % 12

\* Lines 187-196: a truthy sent_date is parsed in the slash or the dash format
\* and rewritten as "%d %b %Y, %I:%M %p"; when strptime raises it stays as it is.
FormatSentDate(sent_date) ==
    LET slash == \E i \in 1..Len(sent_date) : sent_date[i] = "/"
        date_obj == IF slash THEN StrptimeSlash(sent_date) ELSE StrptimeDash(sent_date)
        at == IF slash THEN 11 ELSE 13
        hour == ToInt(SubSeq(sent_date, at, at + 1))
        minute == ToInt(SubSeq(sent_date, at + 3, at + 4))
    IN  IF sent_date = None \/ sent_date = EmptyText \/ ~date_obj.ok
        THEN sent_date
        ELSE Pad(date_obj.d, 2) \o <<" ">> \o MonthAbbr[date_obj.m] \o <<" ">>
                 \o Pad(date_obj.y, 4) \o <<",", " ">> \o Pad(Hour12(hour), 2) \o <<":">>
                 \o Pad(minute, 2) \o <<" ">>
                 \o (IF hour < 12 THEN <<"A", "M">> ELSE <<"P", "M">>)

\* 'PHOTO-'
PhotoPrefix == <<"P", "H", "O", "T", "O", "-">>

\* extract_date_from_filename, lines 38-48: the date after the leftmost
\* 'PHOTO-' that is followed by \d{4}-\d{2}-\d{2}, as "%d %b %Y"; None when
\* there is none or it is no calendar date.
extract_date_from_filename(filename) ==
    LET hits == {i \in 1..Len(filename) :
                    /\ i + 5 <= Len(filename)
                    /\ SubSeq(filename, i, i + 5) = PhotoPrefix
                    /\ DatePatternAt(filename, i + 6)}
        date_str == SubSeq(filename, Min(hits) + 6, Min(hits) + 15)
        date_obj == StrptimeYmd(date_str)
    IN  IF hits = {} THEN None
        ELSE IF ~date_obj.ok THEN None
        ELSE Pad(date_obj.d, 2) \o <<" ">> \o MonthAbbr[date_obj.m] \o <<" ">>
                 \o Pad(date_obj.y, 4)

\* dict.get(k) on an ordered dict: None for a missing key.
OrderedGetOrNone(od, k) == IF OrderedHas(od, k) THEN OrderedGet(od, k) ELSE None

\* The contact's phone written as the contact's name.
RecordForPhoneAsName(payment_info, img_path, mapping) ==
    LET img_filename == Basename(img_path)
        filed == OrderedSet(payment_info, "image_file", img_path)
        contact_info == IF img_filename \in DOMAIN mapping THEN mapping[img_filename]
                        ELSE NullEntry
    IN  OrderedSet(OrderedSet(OrderedSet(filed, "contact_name", contact_info.phone),
                              "contact_phone", contact_info.phone),
                   "sent_date", FormatSentDate(contact_info.sent_date))

\* Lines 172-212: the record appended for an image whose extraction gave a
\* non-empty mapping.  contact_mapping.get(img_filename, {}) is falsy exactly
\* for a missing key, an entry having three keys.
RecordFor(payment_info, img_path, mapping) ==
    LET img_filename == Basename(img_path)
        filed == OrderedSet(payment_info, "image_file", img_path)
        found == img_filename \in DOMAIN mapping
        named == OrderedSet(filed, "contact_name",
                            IF found THEN mapping[img_filename].name ELSE None)
        phoned == OrderedSet(named, "contact_phone",
                             IF found THEN mapping[img_filename].phone ELSE None)
        sent == OrderedSet(phoned, "sent_date",
                           IF found THEN FormatSentDate(mapping[img_filename].sent_date)
                           ELSE None)
        date == OrderedGetOrNone(sent, "date")
        filename_date == extract_date_from_filename(img_path)
    IN  IF (date = None \/ date = EmptyText) /\ filename_date # None
        THEN OrderedSet(sent, "date", filename_date)
        ELSE sent

\* process_image, lines 115-133, on what the collaborators answer: the OCR is
\* called first; without text None is returned; PaymentExtractor() raises
\* ValueError when GROQ_API_KEY is not set (payment_extractor.py, lines 21-23).
process_image(outcome, groq_key) ==
    IF outcome.ocr = Raises
    THEN [raised |-> TRUE, payment_info |-> None]
    ELSE IF outcome.ocr = None \/ outcome.ocr = EmptyText
    THEN [raised |-> FALSE, payment_info |-> None]
    ELSE IF ~groq_key \/ outcome.extraction = Raises
    THEN [raised |-> TRUE, payment_info |-> None]
    ELSE [raised |-> FALSE, payment_info |-> outcome.extraction]

\* An exception that ends the loop.
NextImageOrAbort(raised, i, n) == IF raised THEN n + 1 ELSE i + 1

\* Lines 166-219: the try is inside the loop, which goes on to the next image
\* of the n whether or not image i raised.
NextImage(raised, i, n) == i + 1

\* One pass of the loop of lines 166-219.
PaymentStep(results, img_path, outcome, groq_key, mapping) ==
    LET r == process_image(outcome, groq_key)
    IN  IF r.raised \/ r.payment_info = None \/ r.payment_info = <<>>
        THEN [results |-> results, raised |-> r.raised]
        ELSE [results |-> Append(results, RecordFor(r.payment_info, img_path, mapping)),
              raised |-> FALSE]

-----------------------------------------------------------------------------
\* MaintenancePaymentProcessor.save_to_excel (main.py).

\* Lines 231-232 and 242: the columns every export has.
RequiredColumns ==
    <<"contact_name", "contact_phone", "sent_date", "transaction_id", "amount",
      "payment_method", "date">>

\* Lines 247-256.
column_order == Append(RequiredColumns, "image_file")

\* The elements of a sequence.
Range(q) == {q[i] : i \in 1..Len(q)}

\* The columns of pd.DataFrame(results), line 239: the keys of the records in
\* the order in which they first appear.
RECURSIVE FrameColumns(_, _, _)
FrameColumns(results, i, columns) ==
    IF i > Len(results) THEN columns
    ELSE LET keys == [k \in 1..Len(results[i]) |-> results[i][k].key]
             fresh == SelectSeq(keys, LAMBDA c : c \notin Range(columns))
         IN  FrameColumns(results, i + 1, columns \o fresh)

\* The columns of the file save_to_excel writes, lines 226-266: the empty
\* frame of lines 231-233 for no results; else the frame's columns, the missing
\* required ones added (lines 242-244), reindexed as column_order followed by
\* the others (lines 258-259).
save_to_excel(results) ==
    IF results = <<>>
    THEN RequiredColumns
    ELSE LET frame == FrameColumns(results, 1, <<>>)
             ensured == frame \o SelectSeq(RequiredColumns, LAMBDA c : c \notin Range(frame))
         IN  SelectSeq(column_order, LAMBDA c : c \in Range(ensured))
                 \o SelectSeq(ensured, LAMBDA c : c \notin Range(column_order))

-----------------------------------------------------------------------------
\* The inputs of process_payments.

\* The text the OCR returns for a receipt.
OcrText == <<"P", "a", "i", "d", " ", "R", "s", " ", "5", "0", "0">>

\* What the extraction returns for a receipt without a date.
InfoNoDate ==
    <<[key |-> "transaction_id", value |-> <<"T", "1">>],
      [key |-> "date", value |-> None],
      [key |-> "amount", value |-> <<"5", "0", "0">>],
      [key |-> "payment_method", value |-> <<"U", "P", "I">>]>>

\* What the extraction returns when the model answers with fields of its own,
\* in another order.
InfoExtra ==
    <<[key |-> "amount", value |-> <<"7", "5", "0">>],
      [key |-> "contact_name", value |-> <<"P", "a", "y", "e", "e">>],
      [key |-> "note", value |-> <<"r", "e", "n", "t">>],
      [key |-> "date", value |-> <<"2", "6", " ", "A", "p", "r", " ", "2", "0", "2", "5">>]>>

\* What the two collaborators can answer for one image.
Outcomes ==
    [ocr : {Raises, None}, extraction : {Raises}]
        \cup [ocr : {OcrText}, extraction : {Raises, None, <<>>, InfoNoDate, InfoExtra}]

\* The images extracted from the zip file.
PaymentImages == {DiskPhoto1, PathNum2, PathPlain, PathLeap}

\* The lists of at most n distinct elements of S.
DistinctSeqsUpTo(S, n) ==
    {q \in SeqsUpTo(S, n) : \A i, j \in 1..Len(q) : q[i] = q[j] => i = j}

\* The events of two exports: in the second the sender of the dated file is
\* another and its timestamp is in the dash format.
PaymentEvents ==
    {<<Entry(TsApr27, John, [name |-> John, phone |-> None], FileDated),
       Entry(TsApr29, PhoneLabel, [name |-> PhoneLabel, phone |-> PhoneLabel], File1b),
       Entry(TsFeb31, Bob, [name |-> Bob, phone |-> None], File02c),
       Entry(TsLeapFeb28, John, [name |-> John, phone |-> None], EmptyText)>>,
     <<Entry(TsDashApr30, PhoneLabel, [name |-> PhoneLabel, phone |-> PhoneLabel], FileDated),
       Entry(TsFeb31, Bob, [name |-> Bob, phone |-> None], File02c),
       Entry(TsLeapFeb28, John, [name |-> John, phone |-> None], EmptyText)>>}

\* What process_chat_export returns at line 153: {} for an export without a
\* chat file, else the correlator's mapping of the extracted images.
PaymentMappings ==
    {EmptyDict} \cup
        {MapImages(EmptyDict, BuildFilenameMapping(entries, 1, <<>>), entries,
                   <<DiskPhoto1, PathNum2, PathPlain, PathLeap>>, 1).mapping :
            entries \in PaymentEvents}

\* process_payments has reached line 164 with the images the month filter kept
\* and the mapping of the export; GROQ_API_KEY is set or not.
InitPayments ==
    /\ FreshParser
    /\ phone_call = NoCall
    /\ filter_call = NoCall
    /\ first_run = NoCall
    /\ excel_call = NoCall
    /\ payment_run \in [op : {"running"}, groq_key : BOOLEAN,
                        filtered_images : DistinctSeqsUpTo(PaymentImages, MaxImages),
                        contact_mapping : PaymentMappings, outcomes : {<<>>},
                        next : {1}, results : {<<>>}]

\* One pass of the loop of lines 166-219 over the next filtered image, the
\* collaborators answering in any way.  Without GROQ_API_KEY the extraction is
\* never reached.
PaymentImage ==
    \E outcome \in Outcomes :
        /\ payment_run.op = "running"
        /\ payment_run.next <= Len(payment_run.filtered_images)
        /\ ~payment_run.groq_key => outcome.extraction = Raises
        /\ LET r == PaymentStep(payment_run.results,
                                payment_run.filtered_images[payment_run.next], outcome,
                                payment_run.groq_key, payment_run.contact_mapping)
           IN  payment_run' =
                   [payment_run EXCEPT
                       !.outcomes = Append(@, outcome),
                       !.results = r.results,
                       !.next = NextImage(r.raised, @, Len(payment_run.filtered_images))]
        /\ UNCHANGED <<first_run, excel_call, chat_exists, contacts, image_contact_mapping,
                       message_timestamps, pc, transcript, image_entries, filename_mapping,
                       image_files, branch, contact_mapping, ncalls, phone_call,
                       filter_call>>

\* Lines 221-224: the loop is over, the results are saved and returned.
PaymentsReturn ==
    /\ payment_run.op = "running"
    /\ payment_run.next > Len(payment_run.filtered_images)
    /\ payment_run' = [payment_run EXCEPT !.op = "returned"]
    /\ excel_call' = [op |-> "returned", results |-> payment_run.results,
                      columns |-> save_to_excel(payment_run.results)]
    /\ UNCHANGED <<first_run, chat_exists, contacts, image_contact_mapping,
                   message_timestamps, pc, transcript, image_entries, filename_mapping,
                   image_files, branch, contact_mapping, ncalls, phone_call, filter_call>>

NextPayments == PaymentImage \/ PaymentsReturn

SpecPayments == InitPayments /\ [][NextPayments]_vars

\* C12 (as stated): when GROQ_API_KEY is missing the run stops before any image
\* is handed to the OCR or to the extraction, and does not go on image by image
\* to finish with an export.
C12_AbortsWithoutKey ==
    (~payment_run.groq_key /\ payment_run.filtered_images # <<>>) =>
        /\ payment_run.outcomes = <<>>
        /\ payment_run.op # "returned"

\* The OCR gave text and the extraction a non-empty mapping for the i-th image.
BothGave(i) ==
    /\ payment_run.outcomes[i].ocr \notin {Raises, None, EmptyText}
    /\ payment_run.outcomes[i].extraction \notin {Raises, None, <<>>}

\* The image files of the records, in the order of the results.
RecordImages == [k \in 1..Len(payment_run.results) |->
                    OrderedGet(payment_run.results[k], "image_file")]

\* C13: an image whose OCR or extraction returns nothing or raises adds no
\* record and the images after it are still processed: the records are those of
\* the images, in filter order, for which both gave something, and the run
\* returns only after every filtered image.
C13_DropAndContinue ==
    payment_run.op \in {"running", "returned"} =>
        LET done == Len(payment_run.outcomes)
            Kept(path) == \E i \in 1..done :
                              payment_run.filtered_images[i] = path /\ BothGave(i)
        IN  /\ done <= Len(payment_run.filtered_images)
            /\ RecordImages = SelectSeq(SubSeq(payment_run.filtered_images, 1, done), Kept)
            /\ payment_run.op = "returned" => done = Len(payment_run.filtered_images)

\* The first image raised, the second gave a record, and the run returned.
C13_Witness ==
    /\ payment_run.op = "returned"
    /\ Len(payment_run.filtered_images) = 2
    /\ Raises \in {payment_run.outcomes[1].ocr, payment_run.outcomes[1].extraction}
    /\ BothGave(2)
    /\ RecordImages = <<payment_run.filtered_images[2]>>

\* The fields of the records that are not among the eight named columns, in
\* the order in which they first appear.
ExtraFields ==
    SelectSeq(FrameColumns(excel_call.results, 1, <<>>),
              LAMBDA c : c \notin {"contact_name", "contact_phone", "sent_date",
                                   "transaction_id", "amount", "payment_method", "date",
                                   "image_file"})

\* C14 (as stated): for every list of records passed to save_to_excel, the
\* empty list too, the columns written are contact_name, contact_phone,
\* sent_date, transaction_id, amount, payment_method, date, image_file, then
\* the extra fields of the records in their original order.
C14_Columns ==
    excel_call.op = "returned" =>
        excel_call.columns =
            <<"contact_name", "contact_phone", "sent_date", "transaction_id", "amount",
              "payment_method", "date", "image_file">> \o ExtraFields

-----------------------------------------------------------------------------
\* More claims about map_images_to_contacts called directly (SpecCorrelate).

\* C15 (as stated): map_images_to_contacts never raises, and an image that
\* reaches the closest-date tier with an embedded NNNN-NN-NN that is no
\* calendar date is recorded with the all-null entry while the loop goes on.
C15_NoAbort ==
    /\ pc # "raised"
    /\ (/\ PassDone
        /\ CurName \notin EventNames
        /\ NumberCandidates(CurName) = {}
        /\ SearchDate(CurName) # None
        /\ ~HasCalendarDate(CurName))
           => /\ CurName \in DOMAIN image_contact_mapping
              /\ image_contact_mapping[CurName] = NullEntry

-----------------------------------------------------------------------------
\* More claims about parse_chat_file (SpecParse).

\* The message lines read so far, as <<position, match>> pairs.
MessageLines ==
    {p \in {<<i, ChatMatch(Strip(transcript[i]))>> : i \in 1..Len(transcript)} : p[2].ok}

\* The phone extract_phone_number yields for the first message line of sender.
FirstSeenPhone(sender) ==
    LET own == {p \in MessageLines : p[2].contact_name = sender}
        first == CHOOSE p \in own : \A q \in own : p[1] <= q[1]
    IN  extract_phone_number(sender, first[2].message)

\* In the first parse on a parser, the phone stored for every sender is the one
\* of the sender's first message line; in every parse, every event carries the
\* phone stored for its sender.
C16_StoredPhone ==
    /\ (ncalls.parse = 1 /\ pc \in {"parsing", "parsed"}) =>
           \A sender \in DOMAIN contacts :
               contacts[sender] = [name |-> sender, phone |-> FirstSeenPhone(sender)]
    /\ pc \in {"parsing", "parsed"} =>
           \A i \in 1..Len(image_entries) :
               image_entries[i].contact_info = contacts[image_entries[i].contact_name]

\* C16: once a sender is registered its entry never changes, whatever phone
\* the later lines of the sender would yield: the stored phone is the one of the
\* sender's first message line and every event of the sender carries it.
C16_FirstRegistrationKept ==
    /\ []C16_StoredPhone
    /\ [][\A sender \in DOMAIN contacts :
              sender \in DOMAIN contacts' /\ contacts'[sender] = contacts[sender]]_vars

\* A sender's first line held a phone number; a later line of the sender, which
\* would yield none, emitted an event that carries the first phone.
C16_Witness ==
    /\ pc = "parsed"
    /\ ncalls.parse = 1
    /\ \E p \in MessageLines :
           /\ FirstSeenPhone(p[2].contact_name) # None
           /\ extract_phone_number(p[2].contact_name, p[2].message) = None
           /\ \E i \in 1..Len(image_entries) :
                  /\ image_entries[i].contact_name = p[2].contact_name
                  /\ image_entries[i].timestamp = p[2].timestamp_str
                  /\ image_entries[i].contact_info.phone = FirstSeenPhone(p[2].contact_name)

\* The transcript read so far without the lines that are no message lines.
MessageLinesOnly == SelectSeq(transcript, LAMBDA raw : ChatMatch(Strip(raw)).ok)

\* C17: a line that does not match the message-line pattern gives no event and
\* no registration, attachment marker or not, and does not change how later
\* lines are parsed: the events and the Contact table of a transcript are those
\* of the transcript without its non-message lines.
C17_SkippedLines ==
    (ncalls.parse = 1 /\ pc \in {"parsing", "parsed"}) =>
        LET bare == ParseLines(EmptyDict, EmptyDict, <<>>, MessageLinesOnly, 1)
        IN  /\ image_entries = bare.image_entries
            /\ contacts = bare.contacts

\* A line that is no message line and holds an attachment marker was read
\* before a message line, and only the message lines emitted events.
C17_Witness ==
    /\ pc = "parsed"
    /\ ncalls.parse = 1
    /\ \E i \in 1..Len(transcript) :
           /\ ~ChatMatch(Strip(transcript[i])).ok
           /\ ImageSearch(Strip(transcript[i])) # None
           /\ \E j \in 1..Len(transcript) : j > i /\ ChatMatch(Strip(transcript[j])).ok
    /\ Len(image_entries) = Len(MessageLinesOnly)
    /\ Len(image_entries) >= 1

\* The positions in s where an attachment marker starts.
MarkersIn(s) == {i \in 1..Len(s) : AttachedAt(s, i) # 0}

\* The positions of the message lines whose body holds an attachment marker.
MarkerLines == {p[1] : p \in {q \in MessageLines : MarkersIn(q[2].message) # {}}}

\* C18: the events are, in transcript order, one per message line whose body
\* holds an attachment marker, each with the filename of the first marker of
\* its line and the timestamp and sender of its line; repeated filenames are
\* kept and a message line without a marker gives no event.
C18_OneEventPerMarkerLine ==
    (chat_exists /\ pc \in {"parsing", "parsed"}) =>
        /\ Len(image_entries) = Cardinality(MarkerLines)
        /\ \A i \in MarkerLines :
               LET event == image_entries[Cardinality({j \in MarkerLines : j <= i})]
                   line == ChatMatch(Strip(transcript[i]))
                   first == AttachedAt(line.message, Min(MarkersIn(line.message)))
               IN  /\ event.image_filename = SubSeq(line.message, first, first + 37)
                   /\ event.timestamp = line.timestamp_str
                   /\ event.sent_date = line.timestamp_str
                   /\ event.contact_name = line.contact_name

\* Two message lines of different senders carried the same filename and both
\* events were kept, in line order.
C18_Witness ==
    /\ pc = "parsed"
    /\ Len(image_entries) = 2
    /\ image_entries[1].image_filename = image_entries[2].image_filename
    /\ image_entries[1].contact_name # image_entries[2].contact_name
    /\ image_entries[1].contact_name = ChatMatch(Strip(transcript[1])).contact_name

-----------------------------------------------------------------------------
\* More claims about process_payments (SpecPayments).

\* The three contact fields of a record.
ContactFields(record) ==
    [name |-> OrderedGetOrNone(record, "contact_name"),
     phone |-> OrderedGetOrNone(record, "contact_phone"),
     sent_date |-> OrderedGetOrNone(record, "sent_date")]

\* The image of a record has an entry in the mapping.
HasEntry(record) ==
    Basename(OrderedGet(record, "image_file")) \in DOMAIN payment_run.contact_mapping

\* The entry of the mapping for the image of a record, the all-null entry when
\* it has none.
EntryOf(record) ==
    IF HasEntry(record)
    THEN payment_run.contact_mapping[Basename(OrderedGet(record, "image_file"))]
    ELSE NullEntry

\* C19: every record has its three contact fields from the entry of its
\* image's basename: the entry's name and phone, and a sent_date that is null
\* exactly when the entry's is; an image without an entry, or with the all-null
\* entry, still gets its record, with the three fields null.
C19_ContactFields ==
    payment_run.op \in {"running", "returned"} =>
        /\ \A k \in 1..Len(payment_run.results) :
               LET fields == ContactFields(payment_run.results[k])
                   entry == EntryOf(payment_run.results[k])
               IN  /\ \A c \in {"contact_name", "contact_phone", "sent_date"} :
                          OrderedHas(payment_run.results[k], c)
                   /\ IF entry = NullEntry
                      THEN fields = NullEntry
                      ELSE /\ fields.name = entry.name
                           /\ fields.phone = entry.phone
                           /\ (fields.sent_date = None) <=> (entry.sent_date = None)
        /\ \A i \in 1..Len(payment_run.outcomes) :
               BothGave(i) =>
                   \E k \in 1..Len(payment_run.results) :
                       RecordImages[k] = payment_run.filtered_images[i]

\* The mapping of an export with a chat file has no entry for one image and an
\* entry with a sent date for another: the first record has the three fields
\* null, the second has the entry's name and the sent date rewritten.
C19_Witness ==
    /\ payment_run.op = "returned"
    /\ payment_run.contact_mapping # EmptyDict
    /\ \E k \in 1..Len(payment_run.results) :
           /\ ~HasEntry(payment_run.results[k])
           /\ ContactFields(payment_run.results[k]) = NullEntry
    /\ \E k \in 1..Len(payment_run.results) :
           /\ HasEntry(payment_run.results[k])
           /\ EntryOf(payment_run.results[k]).name # None
           /\ EntryOf(payment_run.results[k]).name # EntryOf(payment_run.results[k]).phone
           /\ ContactFields(payment_run.results[k]).name = EntryOf(payment_run.results[k]).name
           /\ ContactFields(payment_run.results[k]).sent_date
                  # EntryOf(payment_run.results[k]).sent_date

-----------------------------------------------------------------------------
\* map_images_to_contacts called several times on one parser.  __init__
\* (lines 8-11) creates image_contact_mapping once; no call resets it.

\* The lists of events of the successive calls: John on 27 April, the phone
\* contact on 29 April, Bob on 30 April, and a timestamp that is no date.
AccumulateEvents ==
    {<<Entry(TsApr27, John, [name |-> John, phone |-> None], FileDated)>>,
     <<Entry(TsApr29, PhoneLabel, [name |-> PhoneLabel, phone |-> PhoneLabel], File1b)>>,
     <<Entry(TsDashApr30, Bob, [name |-> Bob, phone |-> None], File02c)>>,
     <<Entry(TsFeb31, Bob, [name |-> Bob, phone |-> None], File02c)>>}

\* The image paths of the successive calls; the date of the last one is no
\* calendar date, so a call that reaches the date tier for it raises.
AccumulateImages == {PathExact, PathTie, PathApr30, PathPlain, PathBadDate}

\* The first call of map_images_to_contacts on the parser.
MapFirst ==
    \E entries \in AccumulateEvents : pc = "idle" /\ MapEnter(entries)

\* A later call on the same parser, after a call that returned or raised.
MapLater ==
    \E entries \in AccumulateEvents :
        /\ pc \in {"mapped", "raised"}
        /\ ncalls.map < MaxCalls
        /\ MapEnter(entries)

MapListedImage == \E img_path \in AccumulateImages : MapStep(img_path)

NextAccumulate == MapFirst \/ MapLater \/ MapListedImage \/ MapReturn

SpecAccumulate == Init /\ [][NextAccumulate]_vars

\* The basenames of the image list of the call so far.
ListedNames == {Basename(image_files[i]) : i \in 1..Len(image_files)}

\* In a later call every filename of the mapping the last call returned is
\* still a key of the accumulator.
C20_ReturnedKeysKept ==
    (pc \in {"mapping", "mapped", "raised"} /\ ncalls.map >= 2) =>
        DOMAIN contact_mapping \subseteq DOMAIN image_contact_mapping

\* No step removes a key.
C20_StepKeepsKeys == DOMAIN image_contact_mapping \subseteq DOMAIN image_contact_mapping'

\* A pass over an image that has an entry already and fails the exact tier and
\* the leading-digit tier changes nothing and does not reach the date tier.
C20_PresentKept ==
    (pc = "mapping" /\ Len(image_files') = Len(image_files) + 1) =>
        LET img_filename == Basename(image_files'[Len(image_files')])
        IN  (/\ img_filename \in DOMAIN image_contact_mapping
             /\ ~ExactTier(filename_mapping, img_filename)
             /\ NumberMatch(filename_mapping, img_filename) = 0) =>
                /\ image_contact_mapping' = image_contact_mapping
                /\ pc' = "mapping"
                /\ branch' = "present"

\* C20: the mapping accumulates over the calls on one parser: no call removes a
\* key an earlier call wrote, and a filename that has an entry already and
\* fails the exact and the leading-digit tier keeps that entry, the closest-date
\* tier not being evaluated for it.
C20_Accumulates ==
    []C20_ReturnedKeysKept /\ [][C20_StepKeepsKeys /\ C20_PresentKept]_vars

\* A later call whose list leaves out a filename the earlier call mapped, and
\* whose last image kept the entry of the earlier call although the date tier
\* of this call, asked afresh, gives another entry.
C20_Witness ==
    /\ pc = "mapping"
    /\ ncalls.map >= 2
    /\ branch = "present"
    /\ \E key \in DOMAIN contact_mapping :
           key \in DOMAIN image_contact_mapping /\ key \notin ListedNames
    /\ LET img_path == image_files[Len(image_files)]
           fresh == MapOneImage(EmptyDict, filename_mapping, image_entries, img_path)
       IN  /\ Basename(img_path) \in DOMAIN contact_mapping
           /\ image_contact_mapping[Basename(img_path)] = contact_mapping[Basename(img_path)]
           /\ fresh.branch = "date"
           /\ fresh.mapping[Basename(img_path)] # contact_mapping[Basename(img_path)]

====
